---------------------------- MODULE Spec2Model ----------------------------
(***************************************************************************)
(* Route-trip segmentation and geocoding cache of admin-toolbox            *)
(* (src/utils.py, mirrored in src/geocoding.py).                           *)
(*                                                                         *)
(* These state machines share this module:                                 *)
(*   SpecTrips  - split_route_into_trips walking one route                 *)
(*   SpecRoutes - build_routes_by_date walking the rows of one table       *)
(*   Spec       - _geocode_one / clear_geocache run by concurrent workers  *)
(*   SpecBatch  - geocode_route_addresses run by one background worker     *)
(*   SpecSeq    - _geocode_one and clear_geocache called one at a time     *)
(*   SpecColors - get_route_colors walking a list of route names           *)
(*                                                                         *)
(* Python strings are sequences of one-character strings, so that strip(), *)
(* lower(), upper() and the substring test are computed, not assumed.      *)
(* Times of day are minutes since midnight.                                *)
(***************************************************************************)
EXTENDS Integers, Sequences, FiniteSets, TLC

VARIABLES
    \* ---- split_route_into_trips ----
    visits,                 \* the route handed to split_route_into_trips
    default_address,        \* its default_address argument
    break_names,            \* get_break_names()
    windows,                \* lunch and evening window of the configuration
    i,                      \* number of visits the for-loop has consumed
    current,                \* the buffer of the trip being collected
    raw_trips,              \* the (name, visits) tuples closed so far
    last_break_was_evening,
    tpc,                    \* "input" | "loop" | "done"
    \* ---- build_routes_by_date ----
    df,                     \* the rows of the table
    cfg_default_route_address,  \* config.json's "default_route_address"
    row_idx,                \* number of rows the for-loop has consumed
    result,                 \* (date_str, slinga) -> list of visits
    gpc,                    \* "input" | "loop" | "done"
    \* ---- the geocode cache store (geocache.db) ----
    db_exists,              \* AppConfig.GEOCACHE_DB.exists()
    table,                  \* schema of table geocache: "none" | "old" | "new"
    rows,                   \* its rows under the hashed-key schema
    old_rows,               \* its rows under the old schema (raw address keys)
    migrations,             \* history: times DROP TABLE geocache has run
    entries_before,         \* history: the rows when the sequential caller's resolve began
    \* ---- _geocode_one, per worker thread ----
    pc,                     \* where the worker's call stands
    address,                \* the stripped address
    api_key,                \* TRUE when an API key was passed
    cached,                 \* the local cached, "None" on a miss
    coords,                 \* the local coords, "None" when unset
    conn,                   \* "none" | "open" | "closed"
    calls,                  \* providers contacted by the call, in order
    logged,                 \* warnings the call passed to log_fn, in order
    ret,                    \* value returned, "None", or "raised"
    \* ---- clear_geocache, on the UI thread ----
    ui_pc, ui_conn, ui_count, ui_ret,
    \* ---- geocode_route_addresses, on the batch worker ----
    bpc,                    \* "off" | "input" | "loop" | "call" | "done"
    addresses,              \* the list passed in
    batch_key,              \* the api_key passed in
    batch_idx,              \* number of list elements consumed
    batch_result,           \* the list being returned
    batch_log,              \* everything passed to log_fn, in order
    batch_trace,            \* one record for each _geocode_one call made
    \* ---- get_route_colors ----
    route_names,            \* the list passed in
    color_rules,            \* get_route_color_rules()
    name_idx,               \* number of names the for-loop has consumed
    color_counts,           \* base color -> names that have claimed it
    route_colors,           \* the dict being returned: name -> hex color
    cpc                     \* "idle" | "input" | "loop" | "done"

tripVars == <<visits, default_address, break_names, windows, i, current,
              raw_trips, last_break_was_evening, tpc>>

routeVars == <<df, cfg_default_route_address, row_idx, result, gpc>>

storeVars == <<db_exists, table, rows, old_rows, migrations, entries_before>>
workerVars == <<pc, address, api_key, cached, coords, conn, calls, logged, ret>>
uiVars == <<ui_pc, ui_conn, ui_count, ui_ret>>
batchVars == <<bpc, addresses, batch_key, batch_idx, batch_result, batch_log, batch_trace>>
geoVars == <<storeVars, workerVars, uiVars, batchVars>>

colorVars == <<route_names, color_rules, name_idx, color_counts, route_colors, cpc>>

vars == <<tripVars, routeVars, geoVars, colorVars>>

\* What a step of one machine leaves alone.
notTripVars == <<routeVars, geoVars, colorVars>>
notRouteVars == <<tripVars, geoVars, colorVars>>
notGeoVars == <<tripVars, routeVars, colorVars>>
notColorVars == <<tripVars, routeVars, geoVars>>

-----------------------------------------------------------------------------
(* Strings *)

\* str.lower() on one character (the letters the model uses).
LowerChar(c) ==
    CASE c = "A" -> "a" [] c = "D" -> "d" [] c = "N" -> "n" [] c = "O" -> "o"
      [] c = "E" -> "e" [] c = "R" -> "r" [] c = "S" -> "s" [] c = "T" -> "t"
      [] c = "X" -> "x" [] c = "B" -> "b" [] c = "K" -> "k"
      [] OTHER -> c

\* str.upper() on one character.
UpperChar(c) ==
    CASE c = "a" -> "A" [] c = "d" -> "D" [] c = "n" -> "N" [] c = "o" -> "O"
      [] c = "e" -> "E" [] c = "r" -> "R" [] c = "s" -> "S" [] c = "t" -> "T"
      [] c = "x" -> "X" [] c = "b" -> "B" [] c = "k" -> "K"
      [] OTHER -> c

Lower(s) == [k \in 1..Len(s) |-> LowerChar(s[k])]
Upper(s) == [k \in 1..Len(s) |-> UpperChar(s[k])]

IsSpace(c) == c = " "

\* str.strip(): drops leading and trailing whitespace.
RECURSIVE LStrip(_)
LStrip(s) == IF s # <<>> /\ IsSpace(Head(s)) THEN LStrip(Tail(s)) ELSE s
RECURSIVE RStrip(_)
RStrip(s) ==
    IF s # <<>> /\ IsSpace(s[Len(s)]) THEN RStrip(SubSeq(s, 1, Len(s) - 1)) ELSE s
Strip(s) == RStrip(LStrip(s))

\* Python's "needle in haystack" on strings.
Contains(haystack, needle) ==
    \E k \in 0..(Len(haystack) - Len(needle)) :
        SubSeq(haystack, k + 1, k + Len(needle)) = needle

-----------------------------------------------------------------------------
(* Times and configuration *)

\* A start or end time that is None / NaT / unparseable.
NoTime == -1

\* DEFAULT_BREAK_LUNCH = "10:00-14:00", DEFAULT_BREAK_EVENING = "15:00-19:00".
LunchStartDefault == 600
LunchEndDefault == 840
EveningStartDefault == 900
EveningEndDefault == 1140

DefaultWindows ==
    [lunch_start |-> LunchStartDefault, lunch_end |-> LunchEndDefault,
     evening_start |-> EveningStartDefault, evening_end |-> EveningEndDefault]

\* A configuration whose windows overlap (lunch 10:00-15:00, evening 14:00-19:00).
OverlapWindows ==
    [lunch_start |-> LunchStartDefault, lunch_end |-> EveningStartDefault,
     evening_start |-> LunchEndDefault, evening_end |-> EveningEndDefault]

WindowConfigs == {DefaultWindows, OverlapWindows}

\* DEFAULT_BREAK_NAMES = "RAST"
RAST == <<"R", "A", "S", "T">>

\* A configured "rast;k": two tokens, lower case.
LowerBreakNames == << <<"r", "a", "s", "t">>, <<"k">> >>

\* get_default_location_name(): "Kontor" unless configured.
DefaultLocationName == <<"K", "o", "n", "t", "o", "r">>
-----------------------------------------------------------------------------
(* Visits *)

\* A visit dict.  id is the identity of the dict object: the k-th visit of the
\* input list has id k, a dict built by _ensure_trip_starts_ends_default has
\* id 0.
Visit(id, starttid, sluttid, namn, adress, besokstyp) ==
    [id |-> id, starttid |-> starttid, sluttid |-> sluttid, namn |-> namn,
     adress |-> adress, besokstyp |-> besokstyp, slinga |-> "S1"]

Depot == <<"d">>
DepotVariant == <<"D", " ">>
AddressA == <<"a">>
AddressB == <<"b">>
AddressC == <<"c">>

\* Start times a break at the depot may carry: before, on and between the
\* bounds of both windows, after them, and missing.
BreakTimes == {NoTime, 540, 600, 840, 870, 900, 1140, 1200}

\* The visits a route is drawn from (id filled in when the visit is placed).
VisitPool ==
    {Visit(0, t, NoTime, DefaultLocationName, Depot, RAST) : t \in BreakTimes}
    \cup {Visit(0, 720, NoTime, <<>>, DepotVariant, <<"x", "r", "a", "s", "t">>),
          Visit(0, 540, NoTime, <<>>, Depot, <<"s">>),
          Visit(0, NoTime, NoTime, <<"n">>, AddressA, <<"x">>),
          Visit(0, 540, 570, <<"n">>, AddressA, <<"x">>),
          Visit(0, 600, NoTime, <<"n">>, AddressA, <<"x">>),
          Visit(0, 870, NoTime, <<"n">>, AddressB, <<"x">>),
          Visit(0, 1200, 1230, <<"n">>, AddressB, <<"x">>),
          Visit(0, 900, 930, <<>>, AddressA, RAST)}

\* Longest route built visit by visit.
MaxVisits == 3

DefaultAddresses == {Depot, <<" ", "D">>}

\* The configurations a call runs under: (default_address, windows, break_names).
TripConfigs ==
    {<<d, w, <<RAST>> >> : d \in DefaultAddresses, w \in WindowConfigs}
    \cup {<<Depot, DefaultWindows, LowerBreakNames>>}

-----------------------------------------------------------------------------
(* split_route_into_trips and its helpers *)

_visit_time_start(v) == v.starttid

\* Mutation: the break name has to be the whole text, not a part of it.
IsBreakExactMatch(v, names, default) ==
    LET addr == Lower(Strip(v.adress))
        text == Upper(Strip(v.besokstyp \o <<" ">> \o v.namn))
    IN  /\ addr = Lower(Strip(default))
        /\ \E k \in 1..Len(names) :
              names[k] # <<>> /\ text = Upper(Strip(names[k]))

_is_break_visit(v, names, default) ==
    LET addr == Lower(Strip(v.adress))
        text == Upper(Strip(v.besokstyp \o <<" ">> \o v.namn))
    IN  /\ addr = Lower(Strip(default))
        /\ \E k \in 1..Len(names) :
              names[k] # <<>> /\ Contains(text, Upper(Strip(names[k])))

\* Mutation: the synthetic visit is not stamped with a start time.
DefaultVisitUnstamped(default, slinga, starttid, sluttid) ==
    [id |-> 0, starttid |-> NoTime, sluttid |-> sluttid,
     namn |-> DefaultLocationName, adress |-> Strip(default),
     besokstyp |-> <<>>, slinga |-> slinga]

\* The dict default_visit, with the start and end time the caller overrides.
DefaultVisit(default, slinga, starttid, sluttid) ==
    [id |-> 0, starttid |-> starttid, sluttid |-> sluttid,
     namn |-> DefaultLocationName, adress |-> Strip(default),
     besokstyp |-> <<>>, slinga |-> slinga]

\* "x or y" on times: None is falsy.
TimeOr(x, y) == IF x # NoTime THEN x ELSE y

\* Mutation: the return-to-depot visit is never appended.
EnsureWithoutAppend(vs, default) ==
    IF vs = <<>> THEN <<>>
    ELSE IF Lower(Strip(vs[1].adress)) # Lower(Strip(default))
    THEN <<DefaultVisit(default, vs[1].slinga, vs[1].starttid, NoTime)>> \o vs
    ELSE vs

_ensure_trip_starts_ends_default(vs, default) ==
    IF vs = <<>> THEN <<>>
    ELSE
      LET default_norm == Lower(Strip(default))
          first_addr == Lower(Strip(vs[1].adress))
          last_addr == Lower(Strip(vs[Len(vs)].adress))
          prepended ==
              IF first_addr # default_norm
              THEN <<DefaultVisit(default, vs[1].slinga, vs[1].starttid, NoTime)>> \o vs
              ELSE vs
          last == prepended[Len(prepended)]
      IN  IF last_addr # default_norm
          THEN prepended \o
               <<DefaultVisit(default, vs[1].slinga,
                              TimeOr(last.sluttid, last.starttid), last.sluttid)>>
          ELSE prepended

\* Mutation: the window starts compared with <= instead of <.
TripNameInclusive(vs, lunch_start, evening_start) ==
    IF vs = <<>> THEN "morning"
    ELSE LET t == vs[1].starttid
         IN  IF t = NoTime THEN "morning"
             ELSE IF t <= lunch_start THEN "morning"
             ELSE IF t <= evening_start THEN "afternoon"
             ELSE "evening"

_trip_name_for_no_breaks(vs, lunch_start, evening_start) ==
    IF vs = <<>> THEN "morning"
    ELSE LET t == _visit_time_start(vs[1])
         IN  IF t = NoTime THEN "morning"
             ELSE IF t < lunch_start THEN "morning"
             ELSE IF t < evening_start THEN "afternoon"
             ELSE "evening"

\* Mutation: the upper bound of each window is exclusive.
CutKindOpenEnded(v, names, default, w) ==
    LET t == _visit_time_start(v)
    IN  IF ~_is_break_visit(v, names, default) THEN "none"
        ELSE IF t = NoTime THEN "none"
        ELSE IF w.lunch_start <= t /\ t < w.lunch_end THEN "lunch"
        ELSE IF w.evening_start <= t /\ t < w.evening_end THEN "evening"
        ELSE "none"

\* The loop body's decision for visit v: "lunch", "evening" or "none".
CutKind(v, names, default, w) ==
    LET t == _visit_time_start(v)
    IN  IF ~_is_break_visit(v, names, default) THEN "none"
        ELSE IF t = NoTime THEN "none"
        ELSE IF w.lunch_start <= t /\ t <= w.lunch_end THEN "lunch"
        ELSE IF w.evening_start <= t /\ t <= w.evening_end THEN "evening"
        ELSE "none"

Trip(name, vs) == [name |-> name, visits |-> vs]

\* Mutation: the closing visit is left out of the trip it closes.
AppendTripWithoutLast(trips, name, buffer, default) ==
    LET ensured ==
            _ensure_trip_starts_ends_default(SubSeq(buffer, 1, Len(buffer) - 1), default)
    IN  IF ensured # <<>> THEN Append(trips, Trip(name, ensured)) ELSE trips

\* raw_trips.append((name, ensured)) guarded by "if ensured".
AppendTrip(trips, name, buffer, default) ==
    LET ensured == _ensure_trip_starts_ends_default(buffer, default)
    IN  IF ensured # <<>> THEN Append(trips, Trip(name, ensured)) ELSE trips

-----------------------------------------------------------------------------
(* The sample route of the break-splitting scenario *)

SampleRoute ==
    << Visit(1, 480, NoTime, DefaultLocationName, Depot, <<"s">>),
       Visit(2, 510, 540, <<"n">>, AddressA, <<"x">>),
       Visit(3, 720, NoTime, DefaultLocationName, Depot, RAST),
       Visit(4, 780, 810, <<"n">>, AddressB, <<"x">>),
       Visit(5, 990, NoTime, DefaultLocationName, Depot, RAST),
       Visit(6, 1020, 1050, <<"n">>, AddressC, <<"x">>) >>

SampleConfig ==
    /\ default_address = Depot
    /\ windows = DefaultWindows
    /\ break_names = <<RAST>>

\* The variables of build_routes_by_date while another machine runs.
RoutesIdle ==
    /\ df = <<>>
    /\ cfg_default_route_address = [kind |-> "none", s |-> <<>>]
    /\ row_idx = 0
    /\ result = <<>>
    /\ gpc = "idle"

\* The variables of get_route_colors while another machine runs.
ColorsIdle ==
    /\ route_names = <<>>
    /\ color_rules = <<>>
    /\ name_idx = 0
    /\ color_counts = <<>>
    /\ route_colors = <<>>
    /\ cpc = "idle"

Workers == {"w1", "w2"}

\* The variables of the geocoding machines while another machine runs.
GeoIdle ==
    /\ db_exists = FALSE
    /\ table = "none"
    /\ rows = {}
    /\ old_rows = {}
    /\ migrations = 0
    /\ entries_before = <<{}, {}>>
    /\ pc = [w \in Workers |-> "off"]
    /\ address = [w \in Workers |-> <<>>]
    /\ api_key = [w \in Workers |-> FALSE]
    /\ cached = [w \in Workers |-> "None"]
    /\ coords = [w \in Workers |-> "None"]
    /\ conn = [w \in Workers |-> "none"]
    /\ calls = [w \in Workers |-> <<>>]
    /\ logged = [w \in Workers |-> <<>>]
    /\ ret = [w \in Workers |-> "None"]
    /\ ui_pc = "off"
    /\ ui_conn = "none"
    /\ ui_count = 0
    /\ ui_ret = 0
    /\ bpc = "off"
    /\ addresses = <<>>
    /\ batch_key = FALSE
    /\ batch_idx = 0
    /\ batch_result = <<>>
    /\ batch_log = <<>>
    /\ batch_trace = <<>>

\* The variables of split_route_into_trips while another machine runs.
TripsIdle ==
    /\ visits = <<>>
    /\ default_address = <<>>
    /\ break_names = <<>>
    /\ windows = DefaultWindows
    /\ i = 0
    /\ current = <<>>
    /\ raw_trips = <<>>
    /\ last_break_was_evening = FALSE
    /\ tpc = "idle"

-----------------------------------------------------------------------------
(* SpecTrips: one call of split_route_into_trips *)

InitTrips ==
    /\ visits = <<>>
    /\ \E cfg \in TripConfigs :
          /\ default_address = cfg[1]
          /\ windows = cfg[2]
          /\ break_names = cfg[3]
    /\ i = 0
    /\ current = <<>>
    /\ raw_trips = <<>>
    /\ last_break_was_evening = FALSE
    /\ tpc = "input"
    /\ RoutesIdle
    /\ GeoIdle
    /\ ColorsIdle

\* The caller extends the route it will pass by one more visit.
AddVisit ==
    /\ tpc = "input"
    /\ Len(visits) < MaxVisits
    /\ \E v \in VisitPool :
          visits' = Append(visits, [v EXCEPT !.id = Len(visits) + 1])
    /\ UNCHANGED <<default_address, break_names, windows, i, current, raw_trips,
                   last_break_was_evening, tpc>>
    /\ UNCHANGED notTripVars

\* The caller passes the sample route.
LoadSample ==
    /\ tpc = "input"
    /\ visits = <<>>
    /\ SampleConfig
    /\ visits' = SampleRoute
    /\ UNCHANGED <<default_address, break_names, windows, i, current, raw_trips,
                   last_break_was_evening, tpc>>
    /\ UNCHANGED notTripVars

\* Entry: "if not visits: return []", else the loop starts.
SplitBegin ==
    /\ tpc = "input"
    /\ tpc' = IF visits = <<>> THEN "done" ELSE "loop"
    /\ UNCHANGED <<visits, default_address, break_names, windows, i, current,
                   raw_trips, last_break_was_evening>>
    /\ UNCHANGED notTripVars

\* Mutation: the break that closes a trip also opens the next one.
BufferSharingBreak(v) == <<v>>

\* current = [] after a break has closed the buffer.
BufferAfterBreak(v) == <<>>

\* One iteration of "for i, v in enumerate(visits)".
SplitStep ==
    /\ tpc = "loop"
    /\ i < Len(visits)
    /\ LET v == visits[i + 1]
           buffer == Append(current, v)
           kind == CutKind(v, break_names, default_address, windows)
       IN  /\ i' = i + 1
           /\ IF kind = "lunch"
              THEN /\ raw_trips' = AppendTrip(raw_trips, "morning", buffer, default_address)
                   /\ current' = BufferAfterBreak(v)
                   /\ last_break_was_evening' = FALSE
              ELSE IF kind = "evening"
              THEN /\ raw_trips' = AppendTrip(raw_trips, "afternoon", buffer, default_address)
                   /\ current' = BufferAfterBreak(v)
                   /\ last_break_was_evening' = TRUE
              ELSE /\ current' = buffer
                   /\ UNCHANGED <<raw_trips, last_break_was_evening>>
    /\ UNCHANGED <<visits, default_address, break_names, windows, tpc>>
    /\ UNCHANGED notTripVars

\* Mutation: the trip after the last break is named as the first trip of a day.
LastNameMorning(evening) == "morning"

\* Mutation: the trip after the last break is always the evening trip.
LastNameEvening(evening) == "evening"

\* last_name = "evening" if last_break_was_evening else "afternoon"
LastName(evening) == IF evening THEN "evening" ELSE "afternoon"

\* After the loop: the remaining buffer becomes the last trip; return raw_trips.
SplitFinish ==
    /\ tpc = "loop"
    /\ i = Len(visits)
    /\ raw_trips' =
          IF current = <<>> THEN raw_trips
          ELSE IF raw_trips # <<>>
          THEN AppendTrip(raw_trips, LastName(last_break_was_evening),
                          current, default_address)
          ELSE LET ensured == _ensure_trip_starts_ends_default(current, default_address)
               IN  IF ensured = <<>> THEN raw_trips
                   ELSE <<Trip(_trip_name_for_no_breaks(ensured, windows.lunch_start,
                                                        windows.evening_start),
                               ensured)>>
    /\ tpc' = "done"
    /\ UNCHANGED <<visits, default_address, break_names, windows, i, current,
                   last_break_was_evening>>
    /\ UNCHANGED notTripVars

NextTrips == AddVisit \/ LoadSample \/ SplitBegin \/ SplitStep \/ SplitFinish

SpecTrips == InitTrips /\ [][NextTrips]_vars
-----------------------------------------------------------------------------
(* Claims about split_route_into_trips (checked under SpecTrips) *)

Norm(a) == Lower(Strip(a))
AtDepot(v) == Norm(v.adress) = Norm(default_address)
First(vs) == vs[1]
Last(vs) == vs[Len(vs)]
IsSynthetic(v) == v.id = 0

RECURSIVE FlattenTrips(_)
FlattenTrips(trips) ==
    IF trips = <<>> THEN <<>> ELSE Head(trips).visits \o FlattenTrips(Tail(trips))

IsReal(v) == ~IsSynthetic(v)
RealVisits(trips) == SelectSeq(FlattenTrips(trips), IsReal)

\* C1: every trip returned has a first and a last visit, and the address of
\* both equals the default address once both are trimmed and lower-cased.
C1_TripDepotInvariant ==
    \A k \in 1..Len(raw_trips) :
        /\ raw_trips[k].visits # <<>>
        /\ AtDepot(First(raw_trips[k].visits))
        /\ AtDepot(Last(raw_trips[k].visits))

\* C1 witness: a finished call with two trips, the first padded at its start,
\* the last padded at its end.
C1_Witness ==
    /\ tpc = "done"
    /\ Len(raw_trips) >= 2
    /\ IsSynthetic(First(First(raw_trips).visits))
    /\ IsSynthetic(Last(Last(raw_trips).visits))

\* C2: the trips' visits, in trip order, without the synthetic depot visits,
\* are exactly the input sequence.
C2_TripCoverage ==
    tpc = "done" => RealVisits(raw_trips) = visits

\* C2 witness: a three-visit route cut into several trips, some of them padded.
C2_Witness ==
    /\ tpc = "done"
    /\ Len(visits) = 3
    /\ Len(raw_trips) >= 2
    /\ Len(FlattenTrips(raw_trips)) > Len(visits)

SampleDone == tpc = "done" /\ visits = SampleRoute /\ SampleConfig

\* C3 as stated: on the sample route the afternoon trip begins at the depot at
\* the time of the lunch break (12:00) and the evening trip at the depot at the
\* time of the evening break (16:30).
C3_AsClaimed ==
    SampleDone =>
        /\ Len(raw_trips) = 3
        /\ raw_trips[1] = Trip("morning", SubSeq(SampleRoute, 1, 3))
        /\ raw_trips[2].name = "afternoon"
        /\ Len(raw_trips[2].visits) = 3
        /\ AtDepot(raw_trips[2].visits[1]) /\ raw_trips[2].visits[1].starttid = 720
        /\ raw_trips[2].visits[2] = SampleRoute[4]
        /\ raw_trips[2].visits[3] = SampleRoute[5]
        /\ raw_trips[3].name = "evening"
        /\ Len(raw_trips[3].visits) = 3
        /\ AtDepot(raw_trips[3].visits[1]) /\ raw_trips[3].visits[1].starttid = 990
        /\ raw_trips[3].visits[2] = SampleRoute[6]
        /\ IsSynthetic(raw_trips[3].visits[3])

SyntheticDepot(starttid, sluttid) ==
    [id |-> 0, starttid |-> starttid, sluttid |-> sluttid,
     namn |-> DefaultLocationName, adress |-> Depot, besokstyp |-> <<>>,
     slinga |-> "S1"]

\* C3 amended: on the sample route the break visit belongs only to the trip it
\* closes; the afternoon trip begins with a synthetic depot visit at 13:00 (the
\* start of B) and the evening trip with one at 17:00 (the start of C).
C3_SampleScenario ==
    SampleDone =>
        raw_trips =
            << Trip("morning", SubSeq(SampleRoute, 1, 3)),
               Trip("afternoon",
                    <<SyntheticDepot(780, NoTime), SampleRoute[4], SampleRoute[5]>>),
               Trip("evening",
                    <<SyntheticDepot(1020, NoTime), SampleRoute[6],
                      SyntheticDepot(1050, 1050)>>) >>

\* C3 witness: the call on the sample route has returned three trips.
C3_Witness == SampleDone /\ Len(raw_trips) = 3

InWindow(t, from, to) == t # NoTime /\ from <= t /\ t <= to

\* No visit is a break whose start time lies in the lunch or evening window.
NoCuttingBreak ==
    \A k \in 1..Len(visits) :
        ~(/\ _is_break_visit(visits[k], break_names, default_address)
          /\ \/ InWindow(visits[k].starttid, windows.lunch_start, windows.lunch_end)
             \/ InWindow(visits[k].starttid, windows.evening_start, windows.evening_end))

\* The route with a synthetic depot visit at each end that is not at the depot.
IsPaddedRoute(vs) ==
    /\ SelectSeq(vs, IsReal) = visits
    /\ AtDepot(First(vs)) /\ AtDepot(Last(vs))
    /\ IsSynthetic(First(vs)) <=> ~AtDepot(First(visits))
    /\ IsSynthetic(Last(vs)) <=> ~AtDepot(Last(visits))
    /\ \A k \in 2..(Len(vs) - 1) : IsReal(vs[k])

NameByStartAsClaimed(t) ==
    IF t # NoTime /\ t < windows.lunch_start THEN "morning"
    ELSE IF t # NoTime /\ t < windows.evening_start THEN "afternoon"
    ELSE "evening"

NameByStart(t) ==
    IF t = NoTime \/ t < windows.lunch_start THEN "morning"
    ELSE IF t < windows.evening_start THEN "afternoon"
    ELSE "evening"

SingleVisitAtNine == <<Visit(1, 540, 570, <<"n">>, AddressA, <<"x">>)>>

SingleVisitExample ==
    (visits = SingleVisitAtNine /\ windows = DefaultWindows) =>
        raw_trips =
            << Trip("morning",
                    << [SyntheticDepot(540, NoTime) EXCEPT !.adress = Strip(default_address)],
                       SingleVisitAtNine[1],
                       [SyntheticDepot(570, 570) EXCEPT !.adress = Strip(default_address)] >>) >>

-----------------------------------------------------------------------------
(* Table cells and _is_empty_value *)

\* A cell of the table or a value of config.json: None, a float NaN, or a string.
NoneCell == [kind |-> "none", s |-> <<>>]
NaNCell == [kind |-> "nan", s |-> <<>>]
Str(s) == [kind |-> "str", s |-> s]

\* str(val)
CellStr(c) ==
    CASE c.kind = "none" -> <<"N", "o", "n", "e">>
      [] c.kind = "nan" -> <<"n", "a", "n">>
      [] OTHER -> c.s

\* Truthiness: None and "" are falsy, NaN is truthy.
Truthy(c) == c.kind = "nan" \/ (c.kind = "str" /\ c.s # <<>>)

\* str(val or "")
StrOrEmpty(c) == IF Truthy(c) THEN CellStr(c) ELSE <<>>

_is_empty_value(c) ==
    \/ c.kind = "none"
    \/ c.kind = "nan"
    \/ LET str == Strip(CellStr(c))
       IN  \/ str = <<>>
           \/ Lower(str) = <<"n", "a", "n">>
           \/ Lower(str) = <<"n", "o", "n", "e">>

\* AppConfig.DEFAULT_ROUTE_ADDRESS
DEFAULT_ROUTE_ADDRESS == Depot

get_default_route_address(cfg) ==
    Strip(IF Truthy(cfg) THEN CellStr(cfg) ELSE DEFAULT_ROUTE_ADDRESS)

-----------------------------------------------------------------------------
(* Rows *)

\* A Starttid cell: missing (NaT), a timestamp, text no date parses from, or
\* a value that is not text and not convertible to a date (a bool cell).
NaT == [kind |-> "nat", date |-> 0, time |-> NoTime, s |-> <<>>]
NotADate == [kind |-> "obj", date |-> 0, time |-> NoTime, s |-> <<>>]
Timestamp(date, time) == [kind |-> "ts", date |-> date, time |-> time, s |-> <<>>]
Junk(s) == [kind |-> "junk", date |-> 0, time |-> NoTime, s |-> s]

Row(starttid, slinga, namn, besokstyp, adress) ==
    [Starttid |-> starttid, Sluttid |-> NaT, Slinga |-> slinga, Namn |-> namn,
     Besokstyp |-> besokstyp, Adress |-> adress]

\* The rows a table is drawn from.
RowPool ==
    { Row(Timestamp(1, 480), Str(<<"s">>), Str(<<"n">>), Str(<<"x">>), Str(<<"b">>)),
      Row(Timestamp(1, 480), Str(<<" ", "s">>), NaNCell, Str(<<"x">>), Str(<<" ", "a">>)),
      Row(Timestamp(1, 540), Str(<<"s">>), Str(<<"n">>), Str(RAST), NaNCell),
      Row(Timestamp(1, 420), Str(<<"s">>), NoneCell, Str(<<"x">>), Str(<<"n", "a", "n">>)),
      Row(Timestamp(2, 480), NaNCell, Str(<<"n">>), Str(<<"x">>), Str(<<>>)),
      Row(Timestamp(1, 480), Str(<<" ">>), Str(<<"n">>), NoneCell, Str(<<"N", "o", "n", "e">>)),
      Row(Timestamp(1, 480), NoneCell, Str(<<"n">>), Str(<<"x">>), Str(<<" ">>)),
      Row(NaT, Str(<<"s">>), Str(<<"n">>), Str(<<"x">>), Str(<<"a">>)),
      Row(Junk(<<"x">>), Str(<<"s">>), Str(<<"n">>), Str(<<"x">>), NoneCell),
      Row(Junk(<<"a">>), Str(<<"s">>), Str(<<"n">>), Str(<<"x">>), Str(Depot)),
      Row(NotADate, Str(<<"s">>), Str(<<"n">>), Str(<<"x">>), Str(<<"a">>)) }

\* Largest table.
MaxRows == 3

\* Values of "default_route_address" in config.json: absent, empty, blank,
\* an address with surrounding blanks, and the words none and nan.
ConfiguredDefaults ==
    { NoneCell, Str(<<>>), Str(<<" ", " ">>), Str(<<" ", "e", " ">>),
      Str(<<"n", "o", "n", "e">>), Str(<<"N", "a", "N">>) }

-----------------------------------------------------------------------------
(* build_routes_by_date *)

\* dt.strftime("%Y-%m-%d"), or "unknown" when no date can be derived.
DateStr(starttid) ==
    IF starttid.kind = "ts"
    THEN CASE starttid.date = 1 -> "2024-01-01"
           [] starttid.date = 2 -> "2024-01-02"
           [] OTHER -> "2024-01-03"
    ELSE "unknown"

\* Code point of a character.
Ord(c) ==
    CASE c = " " -> 32 [] c = "A" -> 65 [] c = "D" -> 68 [] c = "K" -> 75
      [] c = "N" -> 78 [] c = "R" -> 82 [] c = "S" -> 83 [] c = "T" -> 84
      [] c = "a" -> 97 [] c = "b" -> 98 [] c = "c" -> 99 [] c = "d" -> 100
      [] c = "e" -> 101 [] c = "k" -> 107 [] c = "n" -> 110 [] c = "o" -> 111
      [] c = "r" -> 114 [] c = "s" -> 115 [] c = "t" -> 116 [] c = "x" -> 120
      [] OTHER -> 63

\* Python's < on strings.
RECURSIVE StrLess(_, _)
StrLess(a, b) ==
    IF b = <<>> THEN FALSE
    ELSE IF a = <<>> THEN TRUE
    ELSE IF Ord(Head(a)) # Ord(Head(b)) THEN Ord(Head(a)) < Ord(Head(b))
    ELSE StrLess(Tail(a), Tail(b))

\* < on the Starttid values of one bucket.
StartLess(a, b) ==
    IF a.kind = "ts" /\ b.kind = "ts"
    THEN a.date < b.date \/ (a.date = b.date /\ a.time < b.time)
    ELSE StrLess(a.s, b.s)

\* < on the sort key (v["starttid"], v["adress"]).
KeyLess(v, w) ==
    \/ StartLess(v.starttid, w.starttid)
    \/ v.starttid = w.starttid /\ StrLess(v.adress, w.adress)

\* < is defined between two timestamps, two texts, two bools; between values
\* of different types it raises TypeError.
Comparable(vs) ==
    \A m, n \in 1..Len(vs) : vs[m].starttid.kind = vs[n].starttid.kind

\* list.sort(key=...): stable, ascending.
RECURSIVE InsertByKey(_, _)
InsertByKey(sorted, v) ==
    IF sorted = <<>> THEN <<v>>
    ELSE IF KeyLess(v, Head(sorted)) THEN <<v>> \o sorted
    ELSE <<Head(sorted)>> \o InsertByKey(Tail(sorted), v)

\* Mutation: the buckets are returned in insertion order.
SortNothing(vs) == vs

RECURSIVE SortVisits(_)
SortVisits(vs) ==
    IF vs = <<>> THEN <<>>
    ELSE InsertByKey(SortVisits(SubSeq(vs, 1, Len(vs) - 1)), vs[Len(vs)])

NoRoute == <<"(", "i", "n", "g", "e", "n", " ", "s", "l", "i", "n", "g", "a", ")">>

\* The address of the visit built from a row.
VisitAddress(adress_val, default) ==
    IF _is_empty_value(adress_val) THEN default ELSE Strip(CellStr(adress_val))

\* The visit dict built from row k of the table (row is the identity of the
\* source row).
VisitOfRow(k, row, default) ==
    LET slinga0 == Strip(StrOrEmpty(row.Slinga))
        slinga == IF slinga0 = <<>> THEN NoRoute ELSE slinga0
        namn == IF _is_empty_value(row.Namn) THEN <<>> ELSE Strip(CellStr(row.Namn))
        besokstyp == Strip(StrOrEmpty(row.Besokstyp))
        adress == VisitAddress(row.Adress, default)
        display_name ==
            IF adress = default THEN DefaultLocationName
            ELSE IF namn # <<>> THEN namn ELSE besokstyp
    IN  [row |-> k, starttid |-> row.Starttid, sluttid |-> row.Sluttid,
         namn |-> display_name, adress |-> adress, besokstyp |-> besokstyp,
         slinga |-> slinga]

\* result[date_str][slinga].append(visit), creating the bucket when missing.
AddToBucket(res, key, visit) ==
    IF key \in DOMAIN res
    THEN [res EXCEPT ![key] = Append(@, visit)]
    ELSE [k \in DOMAIN res \cup {key} |->
             IF k = key THEN <<visit>> ELSE res[k]]

EmptyResult == [k \in {} |-> <<>>]

InitRoutes ==
    /\ df = <<>>
    /\ cfg_default_route_address \in ConfiguredDefaults
    /\ row_idx = 0
    /\ result = EmptyResult
    /\ gpc = "input"
    /\ TripsIdle
    /\ GeoIdle
    /\ ColorsIdle

\* The caller's table grows by one row.
AddRow ==
    /\ gpc = "input"
    /\ Len(df) < MaxRows
    /\ \E r \in RowPool : df' = Append(df, r)
    /\ UNCHANGED <<cfg_default_route_address, row_idx, result, gpc>>
    /\ UNCHANGED notRouteVars

\* Entry: an empty table returns {}.
GroupBegin ==
    /\ gpc = "input"
    /\ gpc' = IF df = <<>> THEN "done" ELSE "loop"
    /\ UNCHANGED <<df, cfg_default_route_address, row_idx, result>>
    /\ UNCHANGED notRouteVars

\* Mutation: no row is skipped.
NeverMissing(starttid) == FALSE

\* pd.isna(starttid)
StartMissing(starttid) == starttid.kind = "nat"

\* One iteration of "for _, row in df.iterrows()".
GroupStep ==
    /\ gpc = "loop"
    /\ row_idx < Len(df)
    /\ LET row == df[row_idx + 1]
           default == get_default_route_address(cfg_default_route_address)
           visit == VisitOfRow(row_idx + 1, row, default)
       IN  /\ row_idx' = row_idx + 1
           /\ result' =
                 IF StartMissing(row.Starttid) THEN result
                 ELSE AddToBucket(result, <<DateStr(row.Starttid), visit.slinga>>, visit)
    /\ UNCHANGED <<df, cfg_default_route_address, gpc>>
    /\ UNCHANGED notRouteVars

\* After the loop every bucket is sorted and the dict is returned; a sort
\* that meets two start times of different types raises TypeError.
GroupFinish ==
    /\ gpc = "loop"
    /\ row_idx = Len(df)
    /\ IF \A k \in DOMAIN result : Comparable(result[k])
       THEN /\ result' = [k \in DOMAIN result |-> SortVisits(result[k])]
            /\ gpc' = "done"
       ELSE /\ gpc' = "raised"
            /\ UNCHANGED result
    /\ UNCHANGED <<df, cfg_default_route_address, row_idx>>
    /\ UNCHANGED notRouteVars

NextRoutes == AddRow \/ GroupBegin \/ GroupStep \/ GroupFinish

SpecRoutes == InitRoutes /\ [][NextRoutes]_vars

-----------------------------------------------------------------------------
(* Claims about build_routes_by_date (checked under SpecRoutes) *)

AllVisits == UNION {{result[k][n] : n \in 1..Len(result[k])} : k \in DOMAIN result}

\* C5: no visit of any output route has an address that _is_empty_value
\* recognises as empty.
C5_AddressNeverEmpty ==
    gpc = "done" => \A v \in AllVisits : ~_is_empty_value(Str(v.adress))

\* The places <<bucket key, position>> at which row k of the table appears.
PlacesOf(k) ==
    {p \in UNION {{<<key, n>> : n \in 1..Len(result[key])} : key \in DOMAIN result} :
        result[p[1]][p[2]].row = k}

StartKind(k) == df[k].Starttid.kind

Unparseable(k) == StartKind(k) \in {"junk", "obj"}

InUnknownBucket(k) == PlacesOf(k) # {} /\ \A p \in PlacesOf(k) : p[1][1] = "unknown"

C15_UnknownBucket ==
    /\ gpc # "raised"
    /\ gpc = "done" =>
          \A k \in 1..Len(df) :
              /\ Unparseable(k) => InUnknownBucket(k)
              /\ StartKind(k) = "ts" =>
                    /\ PlacesOf(k) # {}
                    /\ \A p \in PlacesOf(k) : p[1][1] = DateStr(df[k].Starttid)

\* The route identifier of row k is absent or empty.
NoIdentifier(k) ==
    \/ df[k].Slinga.kind \in {"none", "nan"}
    \/ Strip(df[k].Slinga.s) = <<>>

\* C16: every kept row without a route identifier (null, NaN, empty, blank)
\* is in a bucket of the route "(ingen slinga)"; every route key is a
\* non-empty trimmed string; a row with an identifier is under that
\* identifier, trimmed.
C16_PlaceholderRoute ==
    gpc = "done" =>
        /\ \A key \in DOMAIN result : key[2] # <<>> /\ Strip(key[2]) = key[2]
        /\ \A k \in 1..Len(df) : \A p \in PlacesOf(k) :
              p[1][2] = IF NoIdentifier(k) THEN NoRoute ELSE Strip(df[k].Slinga.s)

Ascending(vs) == \A n \in 1..(Len(vs) - 1) : ~KeyLess(vs[n + 1], vs[n])

\* C17: in the output every bucket is non-empty, every kept row is exactly
\* one visit of exactly one bucket (and every visit comes from a kept row),
\* and each bucket is in ascending order of (start time, address).
C17_BucketsSorted ==
    gpc = "done" =>
        /\ \A key \in DOMAIN result : result[key] # <<>> /\ Ascending(result[key])
        /\ \A k \in 1..Len(df) :
              Cardinality(PlacesOf(k)) = IF StartKind(k) = "nat" THEN 0 ELSE 1
        /\ \A v \in AllVisits : v.row \in 1..Len(df)

\* A bucket whose rows came in descending order has been sorted.
C17_Witness ==
    /\ gpc = "done"
    /\ \E key \in DOMAIN result : \E n \in 1..(Len(result[key]) - 1) :
          /\ result[key][n].row > result[key][n + 1].row
          /\ KeyLess(result[key][n], result[key][n + 1])
-----------------------------------------------------------------------------
(* The geocode cache store *)

\* sha256 of the stripped address; the digest is taken to be collision free.
_hash_address(a) == <<"sha256", Strip(a)>>

GeoRow(a, c) == [address_hash |-> _hash_address(a), coords |-> c]

\* Mutation: every lookup misses.
LookupAlwaysMisses(rs, a) == "None"

\* SELECT lat, lng FROM geocache WHERE address_hash = ?; fetchone().
_get_cached_coords(rs, a) ==
    LET hit == {r \in rs : r.address_hash = _hash_address(a)}
    IN  IF hit = {} THEN "None" ELSE (CHOOSE r \in hit : TRUE).coords

\* Mutation: a plain INSERT into a table without the primary key.
InsertWithoutReplace(rs, a, c) == rs \cup {GeoRow(a, c)}

\* Mutation: the table is emptied before the INSERT.
CacheReplacesAll(rs, a, c) == {GeoRow(a, c)}

\* Mutation: the INSERT is not committed.
CacheNothing(rs, a, c) == rs

\* INSERT OR REPLACE on the primary key address_hash.
_cache_coords(rs, a, c) ==
    {r \in rs : r.address_hash # _hash_address(a)} \cup {GeoRow(a, c)}

\* What the keyed provider's call can do: a result, a response without an
\* accepted result, an exception (timeout, HTTP error, a response that does
\* not parse), or status OK with a result whose lat/lng are null.
GoogleOutcomes == {"ok", "no_result", "timeout", "malformed", "null_coords"}

\* coords = (loc["lat"], loc["lng"]): a pair, also when both are None.
GoogleCoords(o) ==
    IF o = "ok" THEN "G" ELSE IF o = "null_coords" THEN "NullPair" ELSE "None"
GoogleRaises(o) == o \in {"timeout", "malformed"}
\* except Exception
GoogleCaught(o) == TRUE

\* What the free provider's call can do: a location, None, GeocoderTimedOut,
\* or a GeocoderServiceError (which covers an unparseable response).
NominatimOutcomes == {"ok", "no_result", "timeout", "service_error"}
NominatimRaises(o) == o \in {"timeout", "service_error"}

\* except (GeocoderTimedOut, GeocoderServiceError)
NominatimCaught(o) == o \in {"timeout", "service_error"}

\* Mutation: the keyed provider's answer is final.
AfterGoogleGiveUp(c) == "store"

\* if not coords: the free provider is tried unless coords is a pair.
AfterGoogle(c) == IF c # "None" THEN "store" ELSE "nominatim"

Call(provider, outcome) == [provider |-> provider, outcome |-> outcome]

\* Addresses handed to the resolver: two spellings of one address, another
\* address, and a blank one.
GeoAddresses == {<<"a">>, <<" ", "a">>, <<"b">>, <<" ">>}

\* The store before the first call: no file; a file without the table; the old
\* schema with a row; the hashed-key schema, empty or with a row.
InitialStores ==
    { [db_exists |-> FALSE, table |-> "none", rows |-> {}, old_rows |-> {}],
      [db_exists |-> TRUE, table |-> "none", rows |-> {}, old_rows |-> {}],
      [db_exists |-> TRUE, table |-> "old", rows |-> {},
       old_rows |-> {[address |-> <<"a">>, coords |-> "N"]}],
      [db_exists |-> TRUE, table |-> "new", rows |-> {}, old_rows |-> {}],
      [db_exists |-> TRUE, table |-> "new", rows |-> {GeoRow(<<"a">>, "N")},
       old_rows |-> {}] }

InitStore ==
    \E st \in InitialStores :
        /\ db_exists = st.db_exists
        /\ table = st.table
        /\ rows = st.rows
        /\ old_rows = st.old_rows
        /\ migrations = 0
        /\ entries_before = <<{}, {}>>

-----------------------------------------------------------------------------
(* _geocode_one, statement by statement *)

\* An exception leaves the call: the connection is not closed.
Raise(w) ==
    /\ pc' = [pc EXCEPT ![w] = "raised"]
    /\ ret' = [ret EXCEPT ![w] = "raised"]

\* return value, after conn.close() when a connection was opened.
Return(w, value) ==
    /\ pc' = [pc EXCEPT ![w] = "returned"]
    /\ ret' = [ret EXCEPT ![w] = value]
    /\ conn' = [conn EXCEPT ![w] = IF conn[w] = "open" THEN "closed" ELSE conn[w]]

\* Entry: strip; a blank address returns None, else sqlite3.connect.
GeoBegin(w, a, key) ==
    /\ pc[w] = "idle"
    /\ address' = [address EXCEPT ![w] = Strip(a)]
    /\ api_key' = [api_key EXCEPT ![w] = key]
    /\ cached' = [cached EXCEPT ![w] = "None"]
    /\ coords' = [coords EXCEPT ![w] = "None"]
    /\ calls' = [calls EXCEPT ![w] = <<>>]
    /\ logged' = [logged EXCEPT ![w] = <<>>]
    /\ ret' = [ret EXCEPT ![w] = "None"]
    /\ IF Strip(a) = <<>>
       THEN /\ pc' = [pc EXCEPT ![w] = "returned"]
            /\ conn' = [conn EXCEPT ![w] = "none"]
            /\ UNCHANGED db_exists
       ELSE /\ pc' = [pc EXCEPT ![w] = "ensure"]
            /\ conn' = [conn EXCEPT ![w] = "open"]
            /\ db_exists' = TRUE
    /\ UNCHANGED <<table, rows, old_rows, migrations>>

\* _ensure_geocache_table: read sqlite_master and table_info.
EnsureCheck(w) ==
    /\ pc[w] = "ensure"
    /\ pc' = [pc EXCEPT ![w] = IF table = "old" THEN "drop" ELSE "create"]
    /\ UNCHANGED <<storeVars, address, api_key, cached, coords, conn, calls, logged, ret>>
    /\ UNCHANGED <<uiVars, batchVars, notGeoVars>>

\* Mutation: the old rows are carried over under the hash of their address.
EnsureDropReKeys(w) ==
    /\ pc[w] = "drop"
    /\ IF table = "none"
       THEN /\ Raise(w)
            /\ UNCHANGED storeVars
       ELSE /\ table' = "new"
            /\ rows' = rows \cup {GeoRow(r.address, r.coords) : r \in old_rows}
            /\ old_rows' = {}
            /\ migrations' = migrations + 1
            /\ pc' = [pc EXCEPT ![w] = "create"]
            /\ UNCHANGED <<db_exists, entries_before, ret>>
    /\ UNCHANGED <<address, api_key, cached, coords, conn, calls, logged>>
    /\ UNCHANGED <<uiVars, batchVars, notGeoVars>>

\* _ensure_geocache_table: DROP TABLE geocache; commit.
EnsureDrop(w) ==
    /\ pc[w] = "drop"
    /\ IF table = "none"
       THEN /\ Raise(w)
            /\ UNCHANGED storeVars
       ELSE /\ table' = "none"
            /\ rows' = {}
            /\ old_rows' = {}
            /\ migrations' = migrations + 1
            /\ pc' = [pc EXCEPT ![w] = "create"]
            /\ UNCHANGED <<db_exists, entries_before, ret>>
    /\ UNCHANGED <<address, api_key, cached, coords, conn, calls, logged>>
    /\ UNCHANGED <<uiVars, batchVars, notGeoVars>>

\* _ensure_geocache_table: CREATE TABLE IF NOT EXISTS; commit.
EnsureCreate(w) ==
    /\ pc[w] = "create"
    /\ table' = IF table = "none" THEN "new" ELSE table
    /\ pc' = [pc EXCEPT ![w] = "lookup"]
    /\ UNCHANGED <<db_exists, rows, old_rows, migrations, entries_before>>
    /\ UNCHANGED <<address, api_key, cached, coords, conn, calls, logged, ret>>
    /\ UNCHANGED <<uiVars, batchVars, notGeoVars>>

\* cached = _get_cached_coords(conn, address); a hit closes and returns.
Lookup(w) ==
    /\ pc[w] = "lookup"
    /\ IF table # "new"
       THEN /\ Raise(w)
            /\ UNCHANGED <<cached, conn>>
       ELSE LET found == _get_cached_coords(rows, address[w])
            IN  /\ cached' = [cached EXCEPT ![w] = found]
                /\ IF found # "None"
                   THEN Return(w, found)
                   ELSE /\ pc' = [pc EXCEPT ![w] =
                                     IF api_key[w] THEN "google" ELSE "nominatim"]
                        /\ UNCHANGED <<conn, ret>>
    /\ UNCHANGED <<storeVars, address, api_key, coords, calls, logged>>
    /\ UNCHANGED <<uiVars, batchVars, notGeoVars>>

\* The keyed provider (only reached with an API key).
Google(w) ==
    /\ pc[w] = "google"
    /\ \E o \in GoogleOutcomes :
          /\ calls' = [calls EXCEPT ![w] = Append(@, Call("google", o))]
          /\ IF GoogleRaises(o) /\ ~GoogleCaught(o)
             THEN /\ Raise(w)
                  /\ UNCHANGED <<coords, logged>>
             ELSE /\ coords' = [coords EXCEPT ![w] = GoogleCoords(o)]
                  /\ logged' = [logged EXCEPT ![w] =
                                   IF GoogleRaises(o)
                                   THEN Append(@, <<"Google geocode failed", address[w]>>)
                                   ELSE @]
                  /\ pc' = [pc EXCEPT ![w] = AfterGoogle(GoogleCoords(o))]
                  /\ UNCHANGED ret
    /\ UNCHANGED <<storeVars, address, api_key, cached, conn>>
    /\ UNCHANGED <<uiVars, batchVars, notGeoVars>>

\* The free provider (reached while coords is unset).
Nominatim(w) ==
    /\ pc[w] = "nominatim"
    /\ \E o \in NominatimOutcomes :
          /\ calls' = [calls EXCEPT ![w] = Append(@, Call("nominatim", o))]
          /\ IF NominatimRaises(o) /\ ~NominatimCaught(o)
             THEN /\ Raise(w)
                  /\ UNCHANGED <<coords, logged>>
             ELSE /\ coords' = [coords EXCEPT ![w] = IF o = "ok" THEN "N" ELSE "None"]
                  /\ logged' = [logged EXCEPT ![w] =
                                   IF NominatimRaises(o)
                                   THEN Append(@, <<"Geocoding failed", address[w]>>)
                                   ELSE @]
                  /\ pc' = [pc EXCEPT ![w] = "store"]
                  /\ UNCHANGED ret
    /\ UNCHANGED <<storeVars, address, api_key, cached, conn>>
    /\ UNCHANGED <<uiVars, batchVars, notGeoVars>>

\* Mutation: a failure is cached as well.
StoreCachesFailure(w) ==
    /\ pc[w] = "store"
    /\ IF table # "new" \/ coords[w] = "NullPair"
       THEN /\ Raise(w)
            /\ UNCHANGED <<rows, conn>>
       ELSE /\ rows' = _cache_coords(rows, address[w], coords[w])
            /\ Return(w, coords[w])
    /\ UNCHANGED <<db_exists, table, old_rows, migrations, entries_before>>
    /\ UNCHANGED <<address, api_key, cached, coords, calls, logged>>
    /\ UNCHANGED <<uiVars, batchVars, notGeoVars>>

\* if coords: _cache_coords(...); conn.close(); return coords.  The INSERT
\* raises without the table (OperationalError) and for a null lat or lng
\* (IntegrityError, the columns are NOT NULL).
Store(w) ==
    /\ pc[w] = "store"
    /\ IF coords[w] # "None" /\ (table # "new" \/ coords[w] = "NullPair")
       THEN /\ Raise(w)
            /\ UNCHANGED <<rows, conn>>
       ELSE /\ rows' = IF coords[w] # "None"
                       THEN _cache_coords(rows, address[w], coords[w])
                       ELSE rows
            /\ Return(w, coords[w])
    /\ UNCHANGED <<db_exists, table, old_rows, migrations, entries_before>>
    /\ UNCHANGED <<address, api_key, cached, coords, calls, logged>>
    /\ UNCHANGED <<uiVars, batchVars, notGeoVars>>

\* A worker thread calls _geocode_one for one address (windows_common).
GeoCall(w) ==
    /\ bpc = "off"
    /\ \E a \in GeoAddresses, key \in BOOLEAN : GeoBegin(w, a, key)
    /\ UNCHANGED entries_before
    /\ UNCHANGED <<uiVars, batchVars, notGeoVars>>

\* The caller has the result; the thread ends.
GeoReturn(w) ==
    /\ bpc = "off"
    /\ pc[w] \in {"returned", "raised"}
    /\ pc' = [pc EXCEPT ![w] = "idle"]
    /\ address' = [address EXCEPT ![w] = <<>>]
    /\ api_key' = [api_key EXCEPT ![w] = FALSE]
    /\ cached' = [cached EXCEPT ![w] = "None"]
    /\ coords' = [coords EXCEPT ![w] = "None"]
    /\ conn' = [conn EXCEPT ![w] = "none"]
    /\ calls' = [calls EXCEPT ![w] = <<>>]
    /\ logged' = [logged EXCEPT ![w] = <<>>]
    /\ ret' = [ret EXCEPT ![w] = "None"]
    /\ UNCHANGED <<storeVars, uiVars, batchVars, notGeoVars>>

-----------------------------------------------------------------------------
(* clear_geocache, statement by statement *)

\* Mutation: no check for the file; sqlite3.connect creates it.
ClearBeginAlwaysConnects ==
    /\ ui_pc = "idle"
    /\ ui_pc' = "count"
    /\ ui_conn' = "open"
    /\ db_exists' = TRUE
    /\ ui_count' = 0
    /\ UNCHANGED <<ui_ret, table, rows, old_rows, migrations, entries_before>>
    /\ UNCHANGED <<workerVars, batchVars, notGeoVars>>

\* Entry: a missing file returns 0, else sqlite3.connect.
ClearBegin ==
    /\ ui_pc = "idle"
    /\ IF ~db_exists
       THEN /\ ui_pc' = "returned"
            /\ ui_ret' = 0
            /\ UNCHANGED ui_conn
       ELSE /\ ui_pc' = "count"
            /\ ui_conn' = "open"
            /\ UNCHANGED ui_ret
    /\ ui_count' = 0
    /\ UNCHANGED <<storeVars, workerVars, batchVars, notGeoVars>>

\* SELECT COUNT(*) FROM geocache; a missing table is caught and returns 0.
ClearCount ==
    /\ ui_pc = "count"
    /\ IF table = "none"
       THEN /\ ui_pc' = "returned"
            /\ ui_ret' = 0
            /\ UNCHANGED ui_count
       ELSE /\ ui_count' = Cardinality(IF table = "new" THEN rows ELSE old_rows)
            /\ ui_pc' = "delete"
            /\ UNCHANGED ui_ret
    /\ UNCHANGED <<ui_conn, storeVars, workerVars, batchVars, notGeoVars>>

\* Mutation: the DELETE is not committed.
DeleteNothing(rs) == rs

\* DELETE FROM geocache
DeleteAll(rs) == {}

\* DELETE FROM geocache; commit; close; return count.
ClearDelete ==
    /\ ui_pc = "delete"
    /\ IF table = "none"
       THEN /\ ui_pc' = "returned"
            /\ ui_ret' = 0
            /\ UNCHANGED <<ui_conn, rows, old_rows>>
       ELSE /\ rows' = DeleteAll(rows)
            /\ old_rows' = DeleteAll(old_rows)
            /\ ui_conn' = "closed"
            /\ ui_pc' = "returned"
            /\ ui_ret' = ui_count
    /\ UNCHANGED <<ui_count, db_exists, table, migrations, entries_before>>
    /\ UNCHANGED <<workerVars, batchVars, notGeoVars>>

\* The dialog has shown the count.
ClearReturn ==
    /\ ui_pc = "returned"
    /\ ui_pc' = "idle"
    /\ ui_conn' = "none"
    /\ ui_count' = 0
    /\ ui_ret' = 0
    /\ UNCHANGED <<storeVars, workerVars, batchVars, notGeoVars>>

-----------------------------------------------------------------------------
(* Spec: worker threads resolving single addresses while the UI clears *)

Init ==
    /\ InitStore
    /\ pc = [w \in Workers |-> "idle"]
    /\ address = [w \in Workers |-> <<>>]
    /\ api_key = [w \in Workers |-> FALSE]
    /\ cached = [w \in Workers |-> "None"]
    /\ coords = [w \in Workers |-> "None"]
    /\ conn = [w \in Workers |-> "none"]
    /\ calls = [w \in Workers |-> <<>>]
    /\ logged = [w \in Workers |-> <<>>]
    /\ ret = [w \in Workers |-> "None"]
    /\ ui_pc = "idle"
    /\ ui_conn = "none"
    /\ ui_count = 0
    /\ ui_ret = 0
    /\ bpc = "off"
    /\ addresses = <<>>
    /\ batch_key = FALSE
    /\ batch_idx = 0
    /\ batch_result = <<>>
    /\ batch_log = <<>>
    /\ batch_trace = <<>>
    /\ TripsIdle
    /\ RoutesIdle
    /\ ColorsIdle

Next ==
    \/ \E w \in Workers : GeoCall(w)
    \/ \E w \in Workers : EnsureCheck(w)
    \/ \E w \in Workers : EnsureDrop(w)
    \/ \E w \in Workers : EnsureCreate(w)
    \/ \E w \in Workers : Lookup(w)
    \/ \E w \in Workers : Google(w)
    \/ \E w \in Workers : Nominatim(w)
    \/ \E w \in Workers : Store(w)
    \/ \E w \in Workers : GeoReturn(w)
    \/ ClearBegin
    \/ ClearCount
    \/ ClearDelete
    \/ ClearReturn

Spec == Init /\ [][Next]_vars
-----------------------------------------------------------------------------
(* Claims about the geocode cache under concurrent use *)

RowsFor(h) == {r \in rows : r.address_hash = h}

OneRowPerHash == \A r1, r2 \in rows : r1.address_hash = r2.address_hash => r1 = r2

\* A step in which worker w commits an upsert.
Upserts(w) == pc[w] = "store" /\ coords[w] # "None" /\ pc'[w] = "returned"

LastWriterWins ==
    \A w \in Workers :
        Upserts(w) => RowsFor(_hash_address(address[w]))' =
                          {GeoRow(address[w], coords[w])}

\* C6: in every reachable state, under any interleaving of resolves, upserts
\* and clears by the worker threads and the UI, the geocache holds at most one
\* row per address hash; an upsert leaves exactly one row for its address,
\* holding the value just written, so of two writers the last one wins.
C6_OneEntryPerHash == []OneRowPerHash /\ [][LastWriterWins]_vars

\* Two workers have written different coordinates for the same address; the
\* later value is the one stored.
C6_Witness ==
    /\ pc["w1"] = "returned" /\ pc["w2"] = "returned"
    /\ address["w1"] = <<"a">> /\ address["w2"] = <<"a">>
    /\ ret["w1"] = "N" /\ calls["w1"] # <<>>
    /\ ret["w2"] = "G" /\ calls["w2"] # <<>>
    /\ rows = {GeoRow(<<"a">>, "G")}
-----------------------------------------------------------------------------
(* geocode_route_addresses: the batch run by the map window's worker *)

MaxBatch == 3

BatchWorker == "w1"

CouldNotGeocode(addr) == <<"Could not geocode", addr>>

\* if coords: result.append({lat, lng, address})
CollectResult(res, addr, c) ==
    IF c # "None" THEN Append(res, [coords |-> c, address |-> addr]) ELSE res

\* else: log_fn("Could not geocode: ...", "warn")
CollectLog(log, addr, c) ==
    IF c # "None" THEN log ELSE Append(log, CouldNotGeocode(addr))

InitBatch ==
    /\ InitStore
    /\ pc = [w \in Workers |-> IF w = BatchWorker THEN "idle" ELSE "off"]
    /\ address = [w \in Workers |-> <<>>]
    /\ api_key = [w \in Workers |-> FALSE]
    /\ cached = [w \in Workers |-> "None"]
    /\ coords = [w \in Workers |-> "None"]
    /\ conn = [w \in Workers |-> "none"]
    /\ calls = [w \in Workers |-> <<>>]
    /\ logged = [w \in Workers |-> <<>>]
    /\ ret = [w \in Workers |-> "None"]
    /\ ui_pc = "off"
    /\ ui_conn = "none"
    /\ ui_count = 0
    /\ ui_ret = 0
    /\ bpc = "input"
    /\ addresses = <<>>
    /\ batch_key = FALSE
    /\ batch_idx = 0
    /\ batch_result = <<>>
    /\ batch_log = <<>>
    /\ batch_trace = <<>>
    /\ TripsIdle
    /\ RoutesIdle
    /\ ColorsIdle

\* The caller collects one more address for the batch.
BatchAdd ==
    /\ bpc = "input"
    /\ Len(addresses) < MaxBatch
    /\ \E a \in GeoAddresses : addresses' = Append(addresses, a)
    /\ UNCHANGED <<bpc, batch_key, batch_idx, batch_result, batch_log, batch_trace>>
    /\ UNCHANGED <<storeVars, workerVars, uiVars, notGeoVars>>

\* geocode_route_addresses(addresses, api_key, log_fn): result = [].
BatchBegin ==
    /\ bpc = "input"
    /\ bpc' = "loop"
    /\ \E key \in BOOLEAN : batch_key' = key
    /\ batch_idx' = 0
    /\ batch_result' = <<>>
    /\ UNCHANGED <<addresses, batch_log, batch_trace>>
    /\ UNCHANGED <<storeVars, workerVars, uiVars, notGeoVars>>

\* for addr in addresses: strip; a blank one is skipped, else _geocode_one.
BatchNext ==
    /\ bpc = "loop"
    /\ batch_idx < Len(addresses)
    /\ LET addr == Strip(addresses[batch_idx + 1])
       IN  IF addr = <<>>
           THEN /\ batch_idx' = batch_idx + 1
                /\ UNCHANGED <<bpc, storeVars, workerVars>>
           ELSE /\ GeoBegin(BatchWorker, addr, batch_key)
                /\ UNCHANGED entries_before
                /\ bpc' = "call"
                /\ UNCHANGED batch_idx
    /\ UNCHANGED <<addresses, batch_key, batch_result, batch_log, batch_trace>>
    /\ UNCHANGED <<uiVars, notGeoVars>>

\* _geocode_one is back: append the result or warn; an exception that left
\* _geocode_one leaves the batch as well.
BatchCollect ==
    /\ bpc = "call"
    /\ pc[BatchWorker] \in {"returned", "raised"}
    /\ LET addr == Strip(addresses[batch_idx + 1])
           w == BatchWorker
       IN  /\ batch_trace' = Append(batch_trace,
                                    [addr |-> addr, ret |-> ret[w],
                                     calls |-> calls[w], cached |-> cached[w]])
           /\ IF pc[w] = "raised"
              THEN /\ bpc' = "aborted"
                   /\ batch_log' = batch_log \o logged[w]
                   /\ UNCHANGED <<batch_idx, batch_result>>
              ELSE /\ bpc' = "loop"
                   /\ batch_idx' = batch_idx + 1
                   /\ batch_result' = CollectResult(batch_result, addr, ret[w])
                   /\ batch_log' = CollectLog(batch_log \o logged[w], addr, ret[w])
    /\ pc' = [pc EXCEPT ![BatchWorker] = "idle"]
    /\ UNCHANGED <<addresses, batch_key>>
    /\ UNCHANGED <<storeVars, address, api_key, cached, coords, conn, calls, logged, ret>>
    /\ UNCHANGED <<uiVars, notGeoVars>>

\* return result
BatchEnd ==
    /\ bpc = "loop"
    /\ batch_idx = Len(addresses)
    /\ bpc' = "done"
    /\ UNCHANGED <<addresses, batch_key, batch_idx, batch_result, batch_log, batch_trace>>
    /\ UNCHANGED <<storeVars, workerVars, uiVars, notGeoVars>>

NextBatch ==
    \/ BatchAdd
    \/ BatchBegin
    \/ BatchNext
    \/ BatchCollect
    \/ BatchEnd
    \/ EnsureCheck(BatchWorker)
    \/ EnsureDrop(BatchWorker)
    \/ EnsureCreate(BatchWorker)
    \/ Lookup(BatchWorker)
    \/ Google(BatchWorker)
    \/ Nominatim(BatchWorker)
    \/ Store(BatchWorker)

SpecBatch == InitBatch /\ [][NextBatch]_vars
-----------------------------------------------------------------------------
(* Claims about _geocode_one and geocode_route_addresses, run in sequence *)

Trace(k) == batch_trace[k]

\* Calls k and k+1 of the batch resolve the same normalized address.
SameTwice(k) == k + 1 <= Len(batch_trace) /\ Trace(k).addr = Trace(k + 1).addr

ProvidersOf(cs) == [k \in 1..Len(cs) |-> cs[k].provider]

\* Counterexample for C7: over two calls in sequence for the same address at
\* most one provider call is made.
C7_AsClaimed ==
    \A k \in 1..Len(batch_trace) :
        SameTwice(k) => Len(Trace(k).calls) + Len(Trace(k + 1).calls) <= 1

\* C7: when _geocode_one resolves the same normalized address twice in
\* sequence and the first call returns coordinates, the second call is
\* answered from the cache with the same coordinates and contacts no provider,
\* and the two calls together contact each provider at most once; when the
\* first call returns nothing, nothing is cached and the second call misses.
C7_SecondCallFromCache ==
    \A k \in 1..Len(batch_trace) :
        SameTwice(k) =>
            /\ Trace(k).ret # "None" =>
                  /\ Trace(k + 1).calls = <<>>
                  /\ Trace(k + 1).cached = Trace(k).ret
                  /\ Trace(k + 1).ret = Trace(k).ret
                  /\ ProvidersOf(Trace(k).calls) \in
                         {<<>>, <<"google">>, <<"nominatim">>, <<"google", "nominatim">>}
            /\ Trace(k).ret = "None" => Trace(k + 1).cached = "None"

\* Two spellings of one address in a row: the first went to a provider, the
\* second was a cache hit.
C7_Witness ==
    /\ Len(addresses) >= 2 /\ addresses[1] = <<"a">> /\ addresses[2] = <<" ", "a">>
    /\ Len(batch_trace) >= 2
    /\ Trace(1).cached = "None" /\ Trace(1).calls # <<>> /\ Trace(1).ret # "None"
    /\ Trace(2).calls = <<>> /\ Trace(2).ret = Trace(1).ret

\* A call that found nothing in the cache and has returned.
Missed(w) == pc[w] = "returned" /\ address[w] # <<>> /\ cached[w] = "None"

\* C8: for an address not in the cache, without an API key the keyed provider
\* is never called and coordinates are returned only if the free provider gave
\* a result; with an API key the keyed provider is called first and, whenever
\* it fails or gives no accepted result, the free provider is called before
\* nothing is returned; the free provider is never called after the keyed
\* provider produced coordinates.
C8_ProviderOrder ==
    \A w \in Workers :
        /\ Missed(w) /\ ~api_key[w] =>
              /\ ProvidersOf(calls[w]) = <<"nominatim">>
              /\ ret[w] # "None" <=> calls[w][1].outcome = "ok"
        /\ Missed(w) /\ api_key[w] =>
              /\ calls[w] # <<>>
              /\ calls[w][1].provider = "google"
              /\ calls[w][1].outcome # "ok" =>
                     ProvidersOf(calls[w]) = <<"google", "nominatim">>
              /\ ret[w] = "None" => ProvidersOf(calls[w]) = <<"google", "nominatim">>
        /\ \A k \in 1..Len(calls[w]) :
              calls[w][k] = Call("google", "ok") => k = Len(calls[w])

\* With a key: the keyed provider failed, the free provider was then called
\* and resolved the address.
C8_Witness ==
    /\ Missed(BatchWorker) /\ api_key[BatchWorker]
    /\ calls[BatchWorker] = <<Call("google", "timeout"), Call("nominatim", "ok")>>
    /\ ret[BatchWorker] = "N"

\* Some provider call of w ended without a result.
Faulted(w) == \E k \in 1..Len(calls[w]) : calls[w][k].outcome # "ok"

\* C9: for every fault of either provider (timeout, service error, no
\* results, malformed response) no exception escapes _geocode_one and it
\* returns None; "returns None" is read with the fallback of C8: the result
\* is None unless the free provider, consulted after the keyed provider's
\* fault, returns a result.
C9_FaultsContained ==
    \A w \in Workers :
        /\ Faulted(w) => pc[w] # "raised"
        /\ pc[w] = "returned" /\ Faulted(w) =>
              \/ ret[w] = "None"
              \/ /\ calls[w][Len(calls[w])] = Call("nominatim", "ok")
                 /\ calls[w][1].provider = "google"
                 /\ ret[w] = "N"
        /\ pc[w] = "returned" /\ calls[w] # <<>>
               /\ (\A k \in 1..Len(calls[w]) : calls[w][k].outcome # "ok") =>
              ret[w] = "None"

NonBlank(a) == Strip(a) # <<>>
Resolved(t) == t.ret # "None"
Unresolved(t) == t.ret = "None"
IsCouldNotGeocode(m) == m[1] = "Could not geocode"

\* The calls the batch has to make: the non-blank addresses, in input order.
Due == SelectSeq(addresses, NonBlank)

\* The calls collected so far are the first ones due, in order.
ProcessedInOrder ==
    /\ Len(batch_trace) <= Len(Due)
    /\ \A k \in 1..Len(batch_trace) : Trace(k).addr = Strip(Due[k])
    /\ bpc = "done" => Len(batch_trace) = Len(Due)

ResultIsResolved ==
    LET r == SelectSeq(batch_trace, Resolved)
    IN  batch_result = [k \in 1..Len(r) |-> [coords |-> r[k].ret, address |-> r[k].addr]]

OneWarningPerFailure ==
    LET u == SelectSeq(batch_trace, Unresolved)
    IN  SelectSeq(batch_log, IsCouldNotGeocode) =
            [k \in 1..Len(u) |-> CouldNotGeocode(u[k].addr)]

\* C10: geocode_route_addresses processes every address in input order and
\* returns: it never aborts, can always take its next step until it is done,
\* its result holds exactly the addresses that resolved, in input order, and
\* its log holds exactly one "Could not geocode" warning per non-blank address
\* that did not resolve, none for a blank one.
C10_BatchProcessesAll ==
    /\ bpc # "aborted"
    /\ bpc \in {"loop", "call"} => ENABLED NextBatch
    /\ bpc \in {"loop", "call", "done"} =>
          /\ ProcessedInOrder
          /\ ResultIsResolved
          /\ OneWarningPerFailure
-----------------------------------------------------------------------------
(* SpecSeq: one thread at a time resolves an address or clears the cache *)

InitSeq ==
    /\ InitStore
    /\ pc = [w \in Workers |-> IF w = BatchWorker THEN "idle" ELSE "off"]
    /\ address = [w \in Workers |-> <<>>]
    /\ api_key = [w \in Workers |-> FALSE]
    /\ cached = [w \in Workers |-> "None"]
    /\ coords = [w \in Workers |-> "None"]
    /\ conn = [w \in Workers |-> "none"]
    /\ calls = [w \in Workers |-> <<>>]
    /\ logged = [w \in Workers |-> <<>>]
    /\ ret = [w \in Workers |-> "None"]
    /\ ui_pc = "idle"
    /\ ui_conn = "none"
    /\ ui_count = 0
    /\ ui_ret = 0
    /\ bpc = "off"
    /\ addresses = <<>>
    /\ batch_key = FALSE
    /\ batch_idx = 0
    /\ batch_result = <<>>
    /\ batch_log = <<>>
    /\ batch_trace = <<>>
    /\ TripsIdle
    /\ RoutesIdle
    /\ ColorsIdle

\* _geocode_one is called while no clear is running.
SeqResolve ==
    /\ ui_pc = "idle"
    /\ bpc = "off"
    /\ \E a \in GeoAddresses, key \in BOOLEAN : GeoBegin(BatchWorker, a, key)
    /\ entries_before' = <<rows, old_rows>>
    /\ UNCHANGED <<uiVars, batchVars, notGeoVars>>

\* clear_geocache is called while no resolve is running.
SeqClear == pc[BatchWorker] = "idle" /\ ClearBegin

NextSeq ==
    \/ SeqResolve
    \/ EnsureCheck(BatchWorker)
    \/ EnsureDrop(BatchWorker)
    \/ EnsureCreate(BatchWorker)
    \/ Lookup(BatchWorker)
    \/ Google(BatchWorker)
    \/ Nominatim(BatchWorker)
    \/ Store(BatchWorker)
    \/ GeoReturn(BatchWorker)
    \/ SeqClear
    \/ ClearCount
    \/ ClearDelete
    \/ ClearReturn

SpecSeq == InitSeq /\ [][NextSeq]_vars

-----------------------------------------------------------------------------
(* Claims about clear_geocache *)

\* The normalized addresses a lookup in rs finds.
CachedAddresses(rs) ==
    {n \in {Strip(a) : a \in GeoAddresses} : n # <<>> /\ _get_cached_coords(rs, n) # "None"}

\* clear_geocache has deleted and returned.
Cleared == ui_pc = "returned" /\ ui_conn = "closed"

NothingCached == \A a \in GeoAddresses : _get_cached_coords(rows, a) = "None"

\* The step in which clear_geocache deletes, commits and returns.
ClearReturnsCount ==
    ui_pc = "delete" /\ ui_pc' = "returned" /\ table = "new" =>
        ui_ret' = Cardinality(CachedAddresses(rows))

\* C11: with N distinct addresses in the cache, clear_geocache returns N, and
\* once it has returned a lookup of any address finds nothing.
C11_ClearReturnsCount == [](Cleared => NothingCached) /\ [][ClearReturnsCount]_vars

\* Two addresses had been cached; the clear returned 2 and left nothing.
C11_Witness == Cleared /\ ui_ret = 2 /\ table = "new" /\ NothingCached
\* clear_geocache is called and there is no cache file.
ClearsWithoutFile == ui_pc = "idle" /\ ui_pc' # "idle" /\ ~db_exists

\* clear_geocache counts and the file has no geocache table.
ClearsWithoutTable == ui_pc = "count" /\ ui_pc' # "count" /\ table = "none"

ReturnsZeroStoreUnchanged ==
    ui_pc' = "returned" /\ ui_ret' = 0 /\ UNCHANGED storeVars

\* C12: clear_geocache returns 0 and raises nothing when the cache file does
\* not exist and when the file has no geocache table; either way the store is
\* left as it was (no file is created, no table, no row).
C12_ClearOnMissingStore ==
    [][(ClearsWithoutFile \/ ClearsWithoutTable) => ReturnsZeroStoreUnchanged]_vars

\* A clear that found the file without the table has returned 0.
C12_Witness ==
    /\ ui_pc = "returned" /\ ui_ret = 0
    /\ db_exists /\ table = "none" /\ ui_conn = "open"

\* C13: every call of _geocode_one and of clear_geocache has closed the
\* connection it opened when it returns or raises, on every path.
C13_ConnectionsClosed ==
    /\ \A w \in Workers : pc[w] \in {"returned", "raised"} => conn[w] # "open"
    /\ ui_pc = "returned" => ui_conn # "open"
-----------------------------------------------------------------------------
(* get_route_colors *)

\* DEFAULT_ROUTE_COLOR = "#777777"
DEFAULT_ROUTE_COLOR == <<"#", "7", "7", "7", "7", "7", "7">>

Pink == <<"#", "e", "9", "1", "e", "6", "3">>
Blue == <<"#", "3", "4", "9", "8", "d", "b">>
Black == <<" ", "#", "0", "0", "0", "0", "0", "0">>
ShortWhite == <<"#", "F", "F", "F">>
\* A color whose channels are 90, 170 and 180.
Olive == <<"#", "5", "A", "a", "a", "b", "4">>

HexDigits == <<"0", "1", "2", "3", "4", "5", "6", "7", "8", "9",
               "a", "b", "c", "d", "e", "f">>

\* int(c, 16) for one hex digit of either case.
HexVal(c) ==
    CASE c = "A" -> 10 [] c = "B" -> 11 [] c = "C" -> 12
      [] c = "D" -> 13 [] c = "E" -> 14 [] c = "F" -> 15
      [] OTHER -> (CHOOSE n \in 1..16 : HexDigits[n] = c) - 1

\* str.lstrip("#")
RECURSIVE LStripHash(_)
LStripHash(s) == IF s # <<>> /\ Head(s) = "#" THEN LStripHash(Tail(s)) ELSE s

\* #RRGGBB -> (r, g, b); anything shorter than six digits is gray.
_hex_to_rgb(hex_str) ==
    LET h == LStripHash(Strip(hex_str))
    IN  IF Len(h) >= 6
        THEN <<16 * HexVal(h[1]) + HexVal(h[2]),
               16 * HexVal(h[3]) + HexVal(h[4]),
               16 * HexVal(h[5]) + HexVal(h[6])>>
        ELSE <<119, 119, 119>>

\* f"{n:02x}"
Hex2(n) == <<HexDigits[(n \div 16) + 1], HexDigits[(n % 16) + 1]>>

_rgb_to_hex(r, g, b) == <<"#">> \o Hex2(r) \o Hex2(g) \o Hex2(b)

\* blends = [(1.0, 0), (0.6, 255), (0.85, 0), (0.45, 255), (0.7, 0)], the
\* blend factor in percent.
Blends ==
    << [pct |-> 100, mix |-> 0], [pct |-> 60, mix |-> 255], [pct |-> 85, mix |-> 0],
       [pct |-> 45, mix |-> 255], [pct |-> 70, mix |-> 0] >>

\* int(c * blend + mix * (1 - blend)) in double precision: the floor of the
\* exact value, except that c * 0.7 falls just below the integer for c = 90,
\* 170 and 180.
BlendChannel(c, b) ==
    LET exact == (c * b.pct + b.mix * (100 - b.pct)) \div 100
    IN  IF b.pct = 70 /\ c \in {90, 170, 180} THEN exact - 1 ELSE exact

\* max(0, min(255, n))
Clamp(n) == IF n < 0 THEN 0 ELSE IF n > 255 THEN 255 ELSE n

_tint_color(hex_str, tint_index) ==
    LET rgb == _hex_to_rgb(hex_str)
        b == Blends[(tint_index % Len(Blends)) + 1]
    IN  _rgb_to_hex(Clamp(BlendChannel(rgb[1], b)),
                    Clamp(BlendChannel(rgb[2], b)),
                    Clamp(BlendChannel(rgb[3], b)))

Rule(color, contains) == [color |-> color, contains |-> contains]

\* The rule lists get_route_color_rules() returns in the model.
RuleConfigs ==
    { << Rule(Str(Pink), Str(<<"a">>)), Rule(Str(Blue), Str(<<"b">>)) >>,
      << Rule(Str(Black), Str(<<" ", "A", " ">>)), Rule(Str(ShortWhite), Str(<<"b">>)) >>,
      << Rule(Str(<<>>), Str(<<"a">>)), Rule(Str(Pink), NoneCell),
         Rule(Str(Olive), Str(<<"B">>)) >> }

\* Route names that contain "a"; a list takes them in this order.
NumberedNames ==
    << <<"a", "1">>, <<"A", "2">>, <<"a", "3">>, <<"a", "4">>, <<"a", "5">>,
       <<"a", "6">>, <<"a", "7">> >>

\* Route names that contain "b" and "a", only "b", and neither.
OtherNames == { <<"B", "a">>, <<"b">>, <<"x">> }

\* The names a list can be extended with.
NextNames(names) ==
    LET used == {names[k] : k \in 1..Len(names)}
        c == Cardinality({k \in 1..Len(NumberedNames) : NumberedNames[k] \in used})
    IN  (OtherNames \ used) \cup
        (IF c < Len(NumberedNames) THEN {NumberedNames[c + 1]} ELSE {})

MaxNames == 6

\* Mutation: the loop does not break, the last matching rule wins.
LastMatch(name, rules) ==
    LET name_upper == Upper(name)
        matches == {k \in 1..Len(rules) :
                       LET contains == Strip(StrOrEmpty(rules[k].contains))
                       IN  contains # <<>> /\ Contains(name_upper, Upper(contains))}
    IN  IF matches = {} THEN 0 ELSE CHOOSE k \in matches : \A m \in matches : k >= m

\* The index of the first rule whose pattern is in the name, 0 when none is.
FirstMatch(name, rules) ==
    LET name_upper == Upper(name)
        matches == {k \in 1..Len(rules) :
                       LET contains == Strip(StrOrEmpty(rules[k].contains))
                       IN  contains # <<>> /\ Contains(name_upper, Upper(contains))}
    IN  IF matches = {} THEN 0 ELSE CHOOSE k \in matches : \A m \in matches : k <= m

\* The base color of a name.
BaseColor(name, rules) ==
    LET k == FirstMatch(name, rules)
        base_color ==
            IF k = 0 THEN <<>>
            ELSE Strip(IF Truthy(rules[k].color) THEN CellStr(rules[k].color)
                       ELSE DEFAULT_ROUTE_COLOR)
    IN  IF base_color = <<>> THEN DEFAULT_ROUTE_COLOR ELSE base_color

\* color_counts.get(base_color, 0)
CountOf(counts, base_color) ==
    IF base_color \in DOMAIN counts THEN counts[base_color] ELSE 0

\* Mutation: the claim is not counted.
ClaimNotCounted(counts, base_color) == counts

\* color_counts[base_color] = idx + 1
Claim(counts, base_color) ==
    [c \in DOMAIN counts \cup {base_color} |->
        IF c = base_color THEN CountOf(counts, base_color) + 1 ELSE counts[c]]

InitColors ==
    /\ route_names = <<>>
    /\ color_rules \in RuleConfigs
    /\ name_idx = 0
    /\ color_counts = <<>>
    /\ route_colors = <<>>
    /\ cpc = "input"
    /\ TripsIdle
    /\ RoutesIdle
    /\ GeoIdle

\* The caller's list of distinct route names grows by one.
AddName ==
    /\ cpc = "input"
    /\ Len(route_names) < MaxNames
    /\ \E name \in NextNames(route_names) : route_names' = Append(route_names, name)
    /\ UNCHANGED <<color_rules, name_idx, color_counts, route_colors, cpc>>
    /\ UNCHANGED notColorVars

\* Entry: rules = get_route_color_rules(); color_counts = {}; result = {}.
ColorsBegin ==
    /\ cpc = "input"
    /\ cpc' = "loop"
    /\ UNCHANGED <<route_names, color_rules, name_idx, color_counts, route_colors>>
    /\ UNCHANGED notColorVars

\* One iteration of "for name in route_names".
ColorStep ==
    /\ cpc = "loop"
    /\ name_idx < Len(route_names)
    /\ LET name == route_names[name_idx + 1]
           base_color == BaseColor(name, color_rules)
           idx == CountOf(color_counts, base_color)
       IN  /\ route_colors' =
                 [n \in DOMAIN route_colors \cup {name} |->
                     IF n = name THEN _tint_color(base_color, idx) ELSE route_colors[n]]
           /\ color_counts' = Claim(color_counts, base_color)
    /\ name_idx' = name_idx + 1
    /\ UNCHANGED <<route_names, color_rules, cpc>>
    /\ UNCHANGED notColorVars

\* return result
ColorsEnd ==
    /\ cpc = "loop"
    /\ name_idx = Len(route_names)
    /\ cpc' = "done"
    /\ UNCHANGED <<route_names, color_rules, name_idx, color_counts, route_colors>>
    /\ UNCHANGED notColorVars

NextColors == AddName \/ ColorsBegin \/ ColorStep \/ ColorsEnd

SpecColors == InitColors /\ [][NextColors]_vars
-----------------------------------------------------------------------------
(* Claims about get_route_colors (checked under SpecColors) *)

BaseOf(n) == BaseColor(route_names[n], color_rules)

\* How many earlier names of the list claimed the base color of name n.
ClaimIndex(n) == Cardinality({m \in 1..(n - 1) : BaseOf(m) = BaseOf(n)})

ColorOf(n) == route_colors[route_names[n]]

TintsDiffer(base_color) ==
    \A j, k \in 0..4 : j # k => _tint_color(base_color, j) # _tint_color(base_color, k)

-----------------------------------------------------------------------------
(* Further claims about split_route_into_trips (checked under SpecTrips) *)

IsBreak(v) == _is_break_visit(v, break_names, default_address)

InLunch(v) == InWindow(_visit_time_start(v), windows.lunch_start, windows.lunch_end)
InEvening(v) == InWindow(_visit_time_start(v), windows.evening_start, windows.evening_end)

\* The loop consumes visit i + 1.
Walks == tpc = "loop" /\ i' = i + 1

\* The step closes the buffer, the visit included, as a trip of this name.
ClosesAs(name) ==
    /\ Len(raw_trips') = Len(raw_trips) + 1
    /\ SubSeq(raw_trips', 1, Len(raw_trips)) = raw_trips
    /\ Last(raw_trips').name = name
    /\ SelectSeq(Last(raw_trips').visits, IsReal) = Append(current, visits[i + 1])
    /\ current' = <<>>

KeepsCollecting == raw_trips' = raw_trips /\ current' = Append(current, visits[i + 1])

ClosesExactlyAtWindowBreaks ==
    Walks =>
        LET v == visits[i + 1]
        IN  IF IsBreak(v) /\ InLunch(v) THEN ClosesAs("morning")
            ELSE IF IsBreak(v) /\ InEvening(v) THEN ClosesAs("afternoon")
            ELSE KeepsCollecting

\* C19: walking a route, the buffer is closed exactly at a break visit whose
\* start time t has lunch_start <= t <= lunch_end, as a 'morning' trip, or
\* otherwise evening_start <= t <= evening_end, as an 'afternoon' trip, both
\* bounds of both windows included; at every other visit (not a break, no
\* start time, outside both windows) the buffer is kept.
C19_ClosesAtWindowBreaks == [][ClosesExactlyAtWindowBreaks]_vars

\* Breaks exactly at the end of the lunch window and at the end of the
\* evening window have each closed a trip.
C19_Witness ==
    /\ tpc = "done"
    /\ windows = DefaultWindows
    /\ Len(raw_trips) >= 2
    /\ raw_trips[1].name = "morning"
    /\ IsBreak(Last(raw_trips[1].visits))
    /\ _visit_time_start(Last(raw_trips[1].visits)) = windows.lunch_end
    /\ raw_trips[2].name = "afternoon"
    /\ IsBreak(Last(raw_trips[2].visits))
    /\ _visit_time_start(Last(raw_trips[2].visits)) = windows.evening_end

\* The positions of the visits that close a trip.
Closings == {k \in 1..Len(visits) : IsBreak(visits[k]) /\ (InLunch(visits[k]) \/ InEvening(visits[k]))}

LastClosing == CHOOSE k \in Closings : \A m \in Closings : m <= k

\* The k-th closing position, in route order.
ClosingAt(n) == CHOOSE k \in Closings : Cardinality({m \in Closings : m <= k}) = n

\* C20: when at least one break has closed a trip and visits remain after the
\* last closing break, those visits are the final trip, named 'evening' if
\* that break was an evening-window break and 'afternoon' if it was a
\* lunch-window break; a trip closed by a break is named 'morning' (lunch
\* window) or 'afternoon' (evening window), never 'evening'.
C20_FinalTripName ==
    tpc = "done" /\ Closings # {} =>
        LET n == Cardinality(Closings)
        IN  /\ \A k \in 1..n :
                  /\ k <= Len(raw_trips)
                  /\ raw_trips[k].name =
                         IF InLunch(visits[ClosingAt(k)]) THEN "morning" ELSE "afternoon"
            /\ IF LastClosing < Len(visits)
               THEN /\ Len(raw_trips) = n + 1
                    /\ Last(raw_trips).name =
                           IF InLunch(visits[LastClosing]) THEN "afternoon" ELSE "evening"
                    /\ SelectSeq(Last(raw_trips).visits, IsReal) =
                           SubSeq(visits, LastClosing + 1, Len(visits))
               ELSE Len(raw_trips) = n

\* An evening break closed the afternoon trip and a visit after it became the
\* evening trip.
C20_Witness ==
    /\ tpc = "done"
    /\ Closings # {} /\ LastClosing < Len(visits)
    /\ ~InLunch(visits[LastClosing])
    /\ Len(raw_trips) = 2
    /\ raw_trips[1].name = "afternoon"
    /\ raw_trips[2].name = "evening"

-----------------------------------------------------------------------------
(* The break classifier (checked under SpecTrips) *)

\* The visit-type label and the display name, joined as the text is matched,
\* folded to lower case.
LabelAndName(v) == Lower(Strip(v.besokstyp \o <<" ">> \o v.namn))

AtDefaultAddress(v) == Lower(Strip(v.adress)) = Lower(Strip(default_address))

\* Some configured non-empty token is a part of the folded text.
HasBreakToken(v) ==
    \E k \in 1..Len(break_names) :
        /\ break_names[k] # <<>>
        /\ Contains(LabelAndName(v), Lower(break_names[k]))

\* C21: _is_break_visit returns true if and only if the visit's trimmed
\* address equals the trimmed default address, ignoring case, and the
\* case-folded visit-type label and display name contain at least one
\* configured non-empty break-name token as a substring.
C21_BreakClassifier ==
    \A k \in 1..Len(visits) :
        _is_break_visit(visits[k], break_names, default_address)
            <=> (AtDefaultAddress(visits[k]) /\ HasBreakToken(visits[k]))

\* A visit whose label only contains the token, at an address that differs
\* from the default address in case and padding, has closed the morning trip;
\* a visit labelled with the token away from the depot is in the route too.
C21_Witness ==
    /\ tpc = "done"
    /\ Len(visits) = 2
    /\ visits[1].adress = DepotVariant /\ visits[1].adress # default_address
    /\ visits[1].besokstyp = <<"x", "r", "a", "s", "t">>
    /\ break_names = <<RAST>>
    /\ visits[2].besokstyp = RAST /\ ~AtDefaultAddress(visits[2])
    /\ Len(raw_trips) = 2
    /\ raw_trips[1].name = "morning"
    /\ Last(raw_trips[1].visits) = visits[1]

-----------------------------------------------------------------------------
(* Claims about the entries of the geocode cache *)

\* The step in which the call of w returns coordinates a provider supplied.
ReturnsFromProvider(w) ==
    /\ pc[w] = "store" /\ pc'[w] = "returned"
    /\ ret'[w] # "None"
    /\ calls[w] # <<>>

CachedAsReturned(w) ==
    ReturnsFromProvider(w) => _get_cached_coords(rows, address[w])' = ret'[w]

\* C22: whenever _geocode_one returns coordinates obtained from the keyed or
\* the free provider, it has upserted them before returning: a cache lookup of
\* the same address in the state the return leaves finds exactly the
\* coordinates that were returned.
C22_CachedBeforeReturn == [][\A w \in Workers : CachedAsReturned(w)]_vars

\* The keyed provider failed, the free provider answered, and the answer is in
\* the cache when the call has returned it.
C22_Witness ==
    \E w \in Workers :
        /\ pc[w] = "returned"
        /\ ProvidersOf(calls[w]) = <<"google", "nominatim">>
        /\ ret[w] = "N"
        /\ GeoRow(address[w], "N") \in rows

\* The step in which clear_geocache deletes.
ClearDeletes == ui_pc = "delete" /\ ui_pc' = "returned" /\ ui_conn' = "closed"

\* The step in which the call of w finds its address in the cache.
CacheHit(w) == pc[w] = "lookup" /\ cached'[w] # "None"

\* An entry appears only as the upsert of a resolve that returns its coordinates.
CreatedByResolve ==
    \A r \in rows' \ rows :
        \E w \in Workers :
            /\ Upserts(w)
            /\ r = GeoRow(address[w], coords[w])
            /\ ret'[w] = coords[w]

\* An entry disappears only in a clear or when an upsert for its own address
\* replaces it.
RemovedByClearOrUpsert ==
    \A r \in rows \ rows' :
        \/ ClearDeletes
        \/ \E w \in Workers :
              Upserts(w) /\ r.address_hash = _hash_address(address[w])

HitLeavesStore == \A w \in Workers : CacheHit(w) => rows' = rows

\* C23: with the hashed-key table and one call at a time, an entry is created
\* only by a successful resolve, replaced only by an upsert for the same
\* address and removed only by clear_geocache; no resolve removes or alters
\* the entry of another address, and a cache hit leaves the store as it is.
C23_EntryLifecycle ==
    [][table = "new" => CreatedByResolve /\ RemovedByClearOrUpsert /\ HitLeavesStore]_vars

\* With entries for two addresses, one of them made by an earlier resolve, a
\* resolve of the first address has been answered from the cache.
C23_Witness ==
    /\ pc[BatchWorker] = "returned"
    /\ cached[BatchWorker] = "N" /\ ret[BatchWorker] = "N"
    /\ address[BatchWorker] = <<"a">>
    /\ rows = {GeoRow(<<"a">>, "N"), GeoRow(<<"b">>, "G")}

\* Steps of _ensure_geocache_table in the call of w.
FindsOldSchema(w) == pc[w] = "ensure" /\ pc'[w] # "ensure" /\ table = "old"
DropsTable(w) == pc[w] = "drop" /\ pc'[w] = "create"
CreatesTable(w) == pc[w] = "create" /\ pc'[w] = "lookup"
EnsureStep(w) == pc[w] \in {"ensure", "drop", "create"} /\ pc'[w] # pc[w]

\* The old table is dropped with all its rows and an empty hashed-key table
\* is created in its place.
OldSchemaDropped ==
    \A w \in Workers :
        /\ FindsOldSchema(w) => pc'[w] = "drop"
        /\ DropsTable(w) => table' = "none" /\ rows' = {} /\ old_rows' = {}
        /\ CreatesTable(w) => table' = "new" /\ rows' = rows /\ old_rows' = {}

\* On the hashed-key table _ensure_geocache_table changes nothing.
NewSchemaKept ==
    \A w \in Workers :
        table = "new" /\ EnsureStep(w) =>
            table' = "new" /\ rows' = rows /\ migrations' = migrations

-----------------------------------------------------------------------------
(* The rule that colors a route name (checked under SpecColors) *)

\* The pattern of rule k, trimmed; empty when the rule has none.
PatternOf(k) == Strip(StrOrEmpty(color_rules[k].contains))

\* Rule k has a pattern and the name contains it, ignoring case.
RuleMatches(k, name) ==
    PatternOf(k) # <<>> /\ Contains(Lower(name), Lower(PatternOf(k)))

\* The color rule k supplies: its trimmed color, the gray when it has none.
RuleColor(k) ==
    LET c == Strip(StrOrEmpty(color_rules[k].color))
    IN  IF c = <<>> THEN DEFAULT_ROUTE_COLOR ELSE c

\* base is the color of the first rule that matches, or the gray.
IsFirstMatchColor(name, base) ==
    \/ /\ \A k \in 1..Len(color_rules) : ~RuleMatches(k, name)
       /\ base = DEFAULT_ROUTE_COLOR
    \/ \E k \in 1..Len(color_rules) :
          /\ RuleMatches(k, name)
          /\ \A m \in 1..(k - 1) : ~RuleMatches(m, name)
          /\ base = RuleColor(k)

\* The loop of get_route_colors handles one name.
ColorsName == cpc = "loop" /\ name_idx' = name_idx + 1

\* The step counts the name for exactly one base color.
ClaimedColors ==
    {c \in DOMAIN color_counts' : CountOf(color_counts', c) = CountOf(color_counts, c) + 1}

-----------------------------------------------------------------------------
(* The trips of a route (checked under SpecTrips) *)

\* Every trip closed so far holds at least one visit of the route.
NoEmptyTrip ==
    \A k \in 1..Len(raw_trips) : SelectSeq(raw_trips[k].visits, IsReal) # <<>>

\* C26: split_route_into_trips returns at least one trip for every non-empty
\* visit list, whatever the breaks and windows: no closed buffer is empty, and
\* the empty list is returned only for an empty visit list.
C26_AtLeastOneTrip ==
    /\ NoEmptyTrip
    /\ tpc = "done" => (raw_trips = <<>> <=> visits = <<>>)

\* A route of two consecutive lunch breaks: each break closes a trip holding
\* just itself and no buffer is left at the end.
C26_Witness ==
    /\ tpc = "done"
    /\ Len(visits) = 2
    /\ current = <<>>
    /\ Len(raw_trips) = 2
    /\ raw_trips[1].visits = <<visits[1]>>
    /\ raw_trips[2].visits = <<visits[2]>>

\* The trips that hold visit k of the route.
TripsHolding(k) ==
    {n \in 1..Len(raw_trips) :
        \E p \in 1..Len(raw_trips[n].visits) : raw_trips[n].visits[p].id = k}

\* How many breaks have closed a trip up to and including visit k.
ClosedUpTo(k) == Cardinality({m \in Closings : m <= k})

\* The trip after the one closed at k starts with visit k + 1, behind a
\* synthetic depot visit with its start time when it is not at the depot.
StartsAfterBreak(trip, k) ==
    LET next == visits[k + 1]
    IN  IF AtDepot(next)
        THEN First(trip.visits) = next
        ELSE /\ IsSynthetic(First(trip.visits))
             /\ AtDepot(First(trip.visits))
             /\ First(trip.visits).starttid = next.starttid
             /\ trip.visits[2] = next

\* C27: every break visit that closes a trip is the last visit of the trip it
\* closes and belongs to that trip only; the following trip starts with the
\* first visit after the break, preceded by a synthetic depot visit carrying
\* that visit's start time when that visit is not at the depot.
C27_BreakEndsItsTrip ==
    tpc = "done" =>
        \A k \in Closings :
            /\ TripsHolding(k) = {ClosedUpTo(k)}
            /\ Last(raw_trips[ClosedUpTo(k)].visits) = visits[k]
            /\ k < Len(visits) =>
                  /\ ClosedUpTo(k) + 1 <= Len(raw_trips)
                  /\ StartsAfterBreak(raw_trips[ClosedUpTo(k) + 1], k)

\* A lunch break closed the morning trip; the afternoon trip starts with a
\* synthetic depot visit stamped with the start time of the visit after the
\* break, which is away from the depot.
C27_Witness ==
    /\ tpc = "done"
    /\ Len(visits) = 3
    /\ Closings = {2}
    /\ ~AtDepot(visits[3])
    /\ Len(raw_trips) = 2
    /\ Last(raw_trips[1].visits) = visits[2]
    /\ IsSynthetic(First(raw_trips[2].visits))
    /\ First(raw_trips[2].visits).starttid = visits[3].starttid
    /\ raw_trips[2].visits[2] = visits[3]

\* TRIP_NAMES = ["morning", "afternoon", "evening"]: the position of a name.
TripRank(name) ==
    CASE name = "morning" -> 1 [] name = "afternoon" -> 2 [] name = "evening" -> 3

HasTime(v) == _visit_time_start(v) # NoTime

\* The visits that carry a start time are in ascending order of it.
InTimeOrder ==
    LET timed == SelectSeq(visits, HasTime)
    IN  \A k \in 1..(Len(timed) - 1) :
            _visit_time_start(timed[k]) <= _visit_time_start(timed[k + 1])

WindowsInOrder == windows.lunch_end < windows.evening_start

NamesNeverGoBack ==
    \A k \in 1..(Len(raw_trips) - 1) :
        TripRank(raw_trips[k].name) <= TripRank(raw_trips[k + 1].name)

\* C28: for a route in ascending start-time order, with the lunch window
\* ending before the evening window starts, the names of the returned trips,
\* read in order, never go backwards in morning < afternoon < evening.
C28_TripNamesInOrder ==
    tpc = "done" /\ InTimeOrder /\ WindowsInOrder => NamesNeverGoBack

\* A route in time order with a lunch break, an evening break and a later
\* visit gave a morning, an afternoon and an evening trip.
C28_Witness ==
    /\ tpc = "done"
    /\ Len(visits) = 3
    /\ InTimeOrder /\ WindowsInOrder
    /\ \A k \in 1..3 : HasTime(visits[k])
    /\ [k \in 1..Len(raw_trips) |-> raw_trips[k].name] = <<"morning", "afternoon", "evening">>

-----------------------------------------------------------------------------
(* A resolve that fails (checked under SpecSeq) *)

\* The call of w consulted its providers, none gave coordinates, and it has
\* returned None.
FailedResolve(w) ==
    /\ pc[w] = "returned"
    /\ ret[w] = "None"
    /\ calls[w] # <<>>
    /\ \A k \in 1..Len(calls[w]) : calls[w][k].outcome # "ok"

\* Counterexample for C29: a resolve that fails leaves the cache store exactly
\* as it was, no entry added, changed or removed.
C29_AsClaimed ==
    FailedResolve(BatchWorker) => <<rows, old_rows>> = entries_before

\* C29: a resolve that fails adds, changes and removes no entry of the
\* hashed-key table (nothing is cached for the failure), and a lookup of its
\* address still misses, so a later resolve consults the providers again; the
\* old-schema rows the store held when the call began are gone, dropped by the
\* call's _ensure_geocache_table.
C29_NoNegativeCaching ==
    FailedResolve(BatchWorker) =>
        /\ table = "new"
        /\ rows = entries_before[1]
        /\ old_rows = {}
        /\ _get_cached_coords(rows, address[BatchWorker]) = "None"

\* Both providers failed for "b" while the cache held an entry for "a": the
\* entry is as it was and nothing stands for "b".
C29_Witness ==
    /\ FailedResolve(BatchWorker)
    /\ ProvidersOf(calls[BatchWorker]) = <<"google", "nominatim">>
    /\ address[BatchWorker] = <<"b">>
    /\ entries_before = <<{GeoRow(<<"a">>, "N")}, {}>>
    /\ rows = {GeoRow(<<"a">>, "N")}

-----------------------------------------------------------------------------
(* clear_geocache next to running resolvers (checked under Spec) *)

\* The rows the step takes out of the geocache table.
RemovedByStep == Cardinality(rows \ rows') + Cardinality(old_rows \ old_rows')

\* The step in which clear_geocache runs its DELETE (or fails to) and returns.
ClearFinishes == ui_pc = "delete" /\ ui_pc' = "returned"

\* C30: clear_geocache returns exactly the number of entries its call removed
\* from the store, in every execution, also when a concurrent resolver's
\* upsert commits between the count and the delete.
C30_ReturnsRemovedCount == [][ClearFinishes => ui_ret' = RemovedByStep]_vars

=============================================================================
